---- MODULE Spec2Model ----
(***************************************************************************)
(* The access-control gateway of the slack-search MCP service              *)
(* (services/slack_search_mcp/main.py, class SecurityMiddleware) and the   *)
(* shared helpers it calls.  One action per resumption of the coroutine    *)
(* SecurityMiddleware.__call__: an action completes the awaited call and   *)
(* runs the code up to the next await or to the response.                  *)
(*                                                                         *)
(* Strings the code inspects by substring (e-mail addresses) are finite    *)
(* sequences of tokens; Python's None and "" are both the falsy empty      *)
(* value of their type (<<>> for an e-mail, "" for an id).                *)
(***************************************************************************)
EXTENDS Integers, Sequences, FiniteSets, TLC

\* ------------------------------------------------------------ constants
IMPERSONATION_WINDOW_SECONDS == 60
MAX_UNIQUE_IMPERSONATIONS == 20
LOG_TTL_SECONDS == 3600

\* ------------------------------------------------------------ bounds
\* The clock (whole seconds) stops advancing at MaxClock.
MaxClock == 61
\* The request slots of one gateway instance: each is the asyncio task the
\* server runs one request in.  Requests arrive one at a time in SerialSlots.
Slots == {1, 2}
SerialSlots == {1}

\* ------------------------------------------------------------ e-mails
LogicEmail == <<"aibot-logic", "@proj.iam.gserviceaccount.com">>
AccessorEmail == <<"mcp-client-accessor", "@proj.iam.gserviceaccount.com">>
Alice == <<"alice", "@example.com">>
Bob == <<"bob", "@example.com">>
NoEmail == <<>>

Digits == <<"0", "1", "2", "3", "4", "5", "6", "7", "8", "9">>

\* The i-th identity impersonated by the other gateway instances.
Background(i) == <<"user", Digits[(i \div 10) + 1], Digits[(i % 10) + 1], "@example.com">>

\* Python's `pat in s` on strings: pat occurs as a contiguous piece of s.
IsSubstring(pat, s) ==
    \E i \in 0..(Len(s) - Len(pat)) : SubSeq(s, i + 1, i + Len(pat)) = pat

\* ------------------------------------------------------------ secrets
IapAudience == "iap-audience"
IapClientId == "iap-client-id"
OtherAudience == "other-audience"
\* None: what get_secret_value returns for a key found in no secret store
\* (gcp_api.py 74-75), handed on to the verifiers as the audience.
NoAudience == "<none>"

\* What get_secret_value can do (gcp_api.py 28-75): raise, return None when
\* no store has the key, or return the stored string.
SecretOutcomes == {"raises", "none", "value"}

\* ------------------------------------------------------------ headers
\* bytes.lower() / str.lower() on the header names that occur.
Lower(name) ==
    CASE name = "X-Goog-IAP-JWT-Assertion" -> "x-goog-iap-jwt-assertion"
      [] name = "X-User-ID-Token" -> "x-user-id-token"
      [] name = "X-USER-ID-TOKEN" -> "x-user-id-token"
      [] name = "Accept" -> "accept"
      [] OTHER -> name

\* A credential as the verifiers see it: whether signature and expiry are
\* good, the audience it was minted for, the e-mail claim it carries.
\* blank marks the empty header value.
Token(sig_ok, aud, email) ==
    [blank |-> FALSE, sig_ok |-> sig_ok, aud |-> aud, email |-> email]
BlankValue == [blank |-> TRUE, sig_ok |-> FALSE, aud |-> "", email |-> NoEmail]
\* request.headers.get(...) found nothing.
Absent == [blank |-> TRUE, sig_ok |-> FALSE, aud |-> "<absent>", email |-> NoEmail]

RECURSIVE FirstWithKey(_, _, _)
FirstWithKey(hs, key, i) ==
    IF i > Len(hs) THEN Absent
    ELSE IF hs[i][1] = key THEN hs[i][2]
    ELSE FirstWithKey(hs, key, i + 1)

\* The first header's value returned whatever its name.
HeadersGetFirst(hs, name) == IF hs = <<>> THEN Absent ELSE hs[1][2]

\* starlette Headers.get: the first raw entry whose key equals name.lower().
HeadersGet(hs, name) == FirstWithKey(hs, Lower(name), 1)

\* The presence check dropped.
FalsyNever(value) == FALSE

\* `not value` for a header value.
Falsy(value) == value.blank

\* The header name compared without lower-casing it.
ScrubHeadersCaseSensitive(hs) == SelectSeq(hs, LAMBDA h : h[1] # "x-user-id-token")

\* main.py 209-213.
ScrubHeaders(hs) == SelectSeq(hs, LAMBDA h : Lower(h[1]) # "x-user-id-token")

\* Only /health taken for a health path.
PathIsHealthOnly(path) == path = "/health"

\* main.py 121.
PathIsHealth(path) == path = "/health" \/ path = "/healthz"

\* main.py 128.
PathAllowed(path) == path \in {"/mcp/sse", "/mcp/messages", "/mcp/messages/"}

\* ------------------------------------------------------------ verifiers
NoPayload == [present |-> FALSE, email |-> NoEmail]

\* The assertion accepted whatever audience it was minted for.
verify_iap_jwt_any_audience(jwt, expected_audience) ==
    IF jwt.sig_ok THEN [present |-> TRUE, email |-> jwt.email] ELSE NoPayload

\* shared.google_auth.verify_iap_jwt (google_auth.py 111-138): the payload,
\* or None on any failure.  id_token.verify_token checks the audience only
\* when one is given.
verify_iap_jwt(jwt, expected_audience) ==
    IF jwt.sig_ok /\ (expected_audience = NoAudience \/ jwt.aud = expected_audience)
    THEN [present |-> TRUE, email |-> jwt.email]
    ELSE NoPayload

\* google.oauth2.id_token.verify_oauth2_token: raises ValueError unless the
\* signature and expiry are good and, when an audience is given, it matches.
verify_oauth2_token(tok, audience) ==
    IF tok.sig_ok /\ (audience = NoAudience \/ tok.aud = audience)
    THEN [raised |-> FALSE, email |-> tok.email]
    ELSE [raised |-> TRUE, email |-> NoEmail]

\* The e-mail check dropped.
EmailMissingNever(caller_email) == FALSE

\* main.py 158: `not caller_email`.
EmailMissing(caller_email) == caller_email = NoEmail

\* Every caller with an e-mail taken for the logic server.
IsLogicServerAnyCaller(caller_email) == caller_email # NoEmail

\* main.py 167: `"aibot-logic" in caller_email`.
IsLogicServer(caller_email) == IsSubstring(<<"aibot-logic">>, caller_email)

\* main.py 188-190: the audience __call__ passes when it verifies the
\* X-User-ID-Token.
UserTokenAudience(client_id) == client_id

\* ------------------------------------------------------------ rate limit
LogDoc(user_email, now) ==
    [id |-> <<now * 1000, user_email>>, user_email |-> user_email,
     timestamp |-> now, expiry |-> now + LOG_TTL_SECONDS]

\* The write left out when the log already names the identity.
DocumentSetIfUnseen(docs, doc) ==
    IF \E d \in docs : d.user_email = doc.user_email THEN docs ELSE docs \cup {doc}

\* main.py 83-93: .document(doc_id).set({...}) creates the document, or
\* replaces the one of the same id.
DocumentSet(docs, doc) == {d \in docs : d.id # doc.id} \cup {doc}

\* Every entry ever written counts, whatever its age.
InWindowForever(docs, cutoff) == docs

\* A stale read: the newest entries are not yet in the documents it yields.
stream_stale(docs) == {d \in docs : \E e \in docs : e.timestamp > d.timestamp}

\* main.py 98-106: the query's stream yields every document of the
\* collection written before it.
stream(docs) == docs

\* The entry written exactly one window ago left out.
InWindowExclusive(docs, cutoff) == {d \in docs : d.timestamp > cutoff}

\* .where("timestamp", ">=", cutoff)
InWindow(docs, cutoff) == {d \in docs : d.timestamp >= cutoff}

\* Every entry counted, not every user.
UniqueUsersPerEntry(docs, cutoff) == {d.id : d \in InWindow(docs, cutoff)}

\* main.py 104-106: the set of user_email over the streamed documents.
UniqueUsers(docs, cutoff) == {d.user_email : d \in InWindow(docs, cutoff)}

\* The limit compared with < instead of <=.
RateAllowedStrict(unique_users) == Cardinality(unique_users) < MAX_UNIQUE_IMPERSONATIONS

\* main.py 111.
RateAllowed(unique_users) == Cardinality(unique_users) <= MAX_UNIQUE_IMPERSONATIONS

\* ------------------------------------------------------------ directory
\* What users_lookupByEmail can produce: it raises, answers not-ok, or
\* answers ok with a user record (team_id possibly only under
\* enterprise_user.teams) or with no user record at all.
SlackRaises ==
    [raises |-> TRUE, ok |-> FALSE, id |-> "", team_id |-> "", enterprise_id |-> "",
     has_enterprise_user |-> FALSE, teams |-> <<>>]
SlackNotOk ==
    [raises |-> FALSE, ok |-> FALSE, id |-> "", team_id |-> "", enterprise_id |-> "",
     has_enterprise_user |-> FALSE, teams |-> <<>>]
SlackUser(id, team_id, enterprise_id, has_enterprise_user, teams) ==
    [raises |-> FALSE, ok |-> TRUE, id |-> id, team_id |-> team_id,
     enterprise_id |-> enterprise_id, has_enterprise_user |-> has_enterprise_user,
     teams |-> teams]
NoSlackResp == SlackNotOk

SlackResponses ==
    {SlackRaises, SlackNotOk,
     SlackUser("U1", "T1", "", FALSE, <<>>),
     SlackUser("U2", "", "E1", TRUE, <<"T2", "T9">>),
     SlackUser("U3", "T_BAD", "", FALSE, <<>>),
     SlackUser("U4", "T9", "E1", FALSE, <<>>),
     SlackUser("", "", "", FALSE, <<>>)}

\* The not-ok branch of the directory answer is never taken.
LookupOkAlways(resp) == TRUE

\* main.py 234: `slack_user_resp.get("ok")`.
LookupOk(resp) == resp.ok

\* main.py 246-259: team id, with the Enterprise Grid fallback.
TeamIdOf(resp) ==
    IF resp.team_id = "" /\ resp.has_enterprise_user /\ resp.teams # <<>>
    THEN resp.teams[1]
    ELSE resp.team_id

\* ------------------------------------------------------------ allow-lists
\* str.strip() on the pieces that occur in the configured secrets.
Strip(piece) ==
    CASE piece = " T2 " -> "T2"
      [] piece = " " -> ""
      [] OTHER -> piece

RECURSIVE SplitAndStrip(_)
\* [id.strip() for id in s.split(",") if id.strip()], s given by its pieces.
SplitAndStrip(pieces) ==
    IF pieces = <<>> THEN <<>>
    ELSE IF Strip(Head(pieces)) = "" THEN SplitAndStrip(Tail(pieces))
    ELSE <<Strip(Head(pieces))>> \o SplitAndStrip(Tail(pieces))

InSeq(x, s) == \E i \in 1..Len(s) : s[i] = x

\* The secret store's content for the allow-lists (comma-separated pieces).
FullConfigs ==
    {[teamIdsForSearch |-> <<"T1", " T2 ", " ">>, enterpriseIdsForSearch |-> <<"E1">>,
      iapDomain |-> "@example.com", iapAudience |-> IapAudience,
      iapClientId |-> IapClientId],
     [teamIdsForSearch |-> <<"T1">>, enterpriseIdsForSearch |-> <<>>,
      iapDomain |-> "@proj.iam.gserviceaccount.com", iapAudience |-> IapAudience,
      iapClientId |-> IapClientId]}

\* The stores with every key, and the first of them with the key iapAudience
\* or the key iapClientId in no store (get_secret_value then returns None).
Configs ==
    FullConfigs
    \cup {[c EXCEPT !.iapAudience = NoAudience] : c \in {d \in FullConfigs : d.iapDomain = "@example.com"}}
    \cup {[c EXCEPT !.iapClientId = NoAudience] : c \in {d \in FullConfigs : d.iapDomain = "@example.com"}}

NotLoaded == [loaded |-> FALSE, ids |-> <<>>]
Loaded(ids) == [loaded |-> TRUE, ids |-> ids]

\* Team and enterprise both required.
is_team_authorized_both(team_id, enterprise_id, allowed_teams, allowed_enterprises) ==
    IF allowed_teams = <<>> /\ allowed_enterprises = <<>> THEN FALSE
    ELSE InSeq(team_id, allowed_teams)
         /\ (enterprise_id # "" /\ InSeq(enterprise_id, allowed_enterprises))

\* shared.security.is_team_authorized, given the loaded lists.
is_team_authorized(team_id, enterprise_id, allowed_teams, allowed_enterprises) ==
    IF allowed_teams = <<>> /\ allowed_enterprises = <<>> THEN FALSE
    ELSE InSeq(team_id, allowed_teams)
         \/ (enterprise_id # "" /\ InSeq(enterprise_id, allowed_enterprises))

\* shared.security.is_user_authorized: the e-mail is present, its domain is
\* the configured one, and the team or enterprise is allow-listed.
is_user_authorized(email, team_id, enterprise_id, allowed_teams, allowed_enterprises, domain) ==
    /\ email # NoEmail
    /\ email[Len(email)] = domain
    /\ is_team_authorized(team_id, enterprise_id, allowed_teams, allowed_enterprises)

\* ------------------------------------------------------------ state
VARIABLES
    clock,            \* time.time(), whole seconds
    log,              \* the AIBot_Impersonation_Logs collection (shared store)
    config,           \* the secret store's allow-list content
    allowed_team_ids, \* shared.security._allowed_team_ids
    allowed_enterprise_ids,
    pc,               \* per slot: where __call__ is suspended
    scope,            \* per slot: the ASGI scope (type, path, headers)
    received,         \* per slot: the headers as they arrived
    loc,              \* per slot: the local variables of __call__
    calls,            \* per slot: the calls __call__ has made, in order
    responses,        \* per slot: the responses started on the connection
    app_scope,        \* per slot: the headers self.app was called with
    user_id_ctx,      \* per context: the value of the ContextVar user_id
    team_id_ctx,      \* per context: the value of the ContextVar team_id
    cache,            \* the search tool's GlobalCache instance (main.py 343)
    tool,             \* the search_slack_messages call in progress
    hook,             \* the webhook service's request in progress
    granted,          \* history: the log entries whose rate check returned True
    auth,             \* the calls of is_team_authorized in progress in one process
    worker            \* the Pub/Sub worker's request in progress and its keep-alive task

vars ==
    <<clock, log, config, allowed_team_ids, allowed_enterprise_ids, pc, scope,
      received, loc, calls, responses, app_scope, user_id_ctx, team_id_ctx,
      cache, tool, hook, granted, auth, worker>>

shared == <<log, granted, config, allowed_team_ids, allowed_enterprise_ids>>

\* The state of the search tool, which the gateway's own code never touches.
search == <<cache, tool>>

PlainValue == [blank |-> FALSE, sig_ok |-> FALSE, aud |-> "text/event-stream", email |-> NoEmail]

NoScope == [type |-> "none", path |-> "", headers |-> <<>>, client |-> FALSE]

InitLoc ==
    [iap_jwt |-> Absent, iap_audience |-> "", client_id |-> "", caller_email |-> NoEmail,
     final_user_email |-> NoEmail, is_logic_server |-> FALSE,
     user_id_token |-> Absent, now |-> 0, cutoff |-> 0, unique_users |-> {},
     slack_user_resp |-> NoSlackResp, slack_user_id |-> "", team_id |-> "",
     enterprise_id |-> "", authorized |-> FALSE, token |-> "None",
     team_token |-> "None", handler_team_id |-> "unread", raised |-> "none"]

\* ContextVar(..., default=None)
Unbound == "None"

\* One context shared by every task: a process-wide variable.
ContextShared(r) == 1

\* The context the code of slot r runs in: asyncio gives every task its own
\* copy of the context, and the server runs every request in its own task.
ContextOf(r) == r

\* The reset left out: the variable keeps its current value.
ContextResetSkipped(current, token) == current

\* ContextVar.reset(token): back to the value the token recorded at set().
ContextReset(current, token) == token

Call(op, arg) == [op |-> op, arg |-> arg]
Response(status, body) == [status |-> status, body |-> body]

\* ------------------------------------------------------------ inputs
IapHeader(t) == <<<<"x-goog-iap-jwt-assertion", t>>>>
UserTokenHeader(t) == <<<<"x-user-id-token", t>>>>

\* The logic server's assertion.
LogicIapOptions == {IapHeader(Token(TRUE, IapAudience, LogicEmail))}

\* No assertion, an empty one, a forged one, one for another audience, one
\* without e-mail, and the assertions of the accessor and of an end user.
OtherIapOptions ==
    {<<>>, IapHeader(BlankValue)}
    \cup {IapHeader(t) :
            t \in {Token(FALSE, IapAudience, Alice), Token(TRUE, OtherAudience, LogicEmail)}
                  \cup {Token(TRUE, IapAudience, e) : e \in {AccessorEmail, Alice, NoEmail}}}

UserTokens ==
    {Token(FALSE, IapClientId, Alice), Token(TRUE, OtherAudience, Alice)}
    \cup {Token(TRUE, IapClientId, e) : e \in {Alice, Bob, NoEmail}}

\* No user token, an empty one, one under a raw mixed-case key, one under
\* two keys, and each of UserTokens under the lower-case key.
UserTokenHeaderOptions ==
    {<<>>, UserTokenHeader(BlankValue),
     <<<<"X-User-ID-Token", Token(TRUE, IapClientId, Alice)>>>>,
     <<<<"X-USER-ID-TOKEN", Token(TRUE, IapClientId, Bob)>>,
       <<"x-user-id-token", Token(TRUE, IapClientId, Alice)>>>>}
    \cup {UserTokenHeader(t) : t \in UserTokens}

FewUserTokenHeaderOptions ==
    {<<>>, UserTokenHeader(Token(TRUE, IapClientId, Alice)),
     UserTokenHeader(Token(FALSE, IapClientId, Alice))}

OtherHeaders == <<<<"accept", PlainValue>>>>

CredentialOptions ==
    {i \o u : i \in LogicIapOptions, u \in UserTokenHeaderOptions}
    \cup {i \o u : i \in OtherIapOptions, u \in FewUserTokenHeaderOptions}

HttpPaths ==
    {"/health", "/healthz", "/mcp/sse", "/mcp/messages", "/mcp/messages/", "/mcp/sse/", "/"}

\* An HTTP scope; client says whether the server put a "client" entry in it
\* (the entry is optional: starlette's Request.client is None without it).
HttpScope(path, headers, client) ==
    [type |-> "http", path |-> path, headers |-> headers, client |-> client]

\* Every path under every credential from a known peer, and a request on
\* each kind of path whose scope has no client entry.
HttpScopes ==
    {HttpScope(p, c \o OtherHeaders, TRUE) : p \in HttpPaths, c \in CredentialOptions}
    \cup {HttpScope(p, c \o OtherHeaders, FALSE) :
             p \in {"/", "/health", "/mcp/sse"},
             c \in {<<>>, IapHeader(Token(TRUE, IapAudience, Alice))}}

OtherScopes == {[type |-> "lifespan", path |-> "", headers |-> <<>>, client |-> FALSE]}

BackgroundCounts ==
    {0, MAX_UNIQUE_IMPERSONATIONS - 1, MAX_UNIQUE_IMPERSONATIONS}

\* Entries the other gateway instances appended at time 0.
BackgroundLog(k) == {LogDoc(Background(i), 0) : i \in 1..k}

\* ------------------------------------------------------------ steps
\* `await response(scope, receive, send); return` after the calls cs.
Reply(r, cs, status, body, l) ==
    /\ pc' = [pc EXCEPT ![r] = "done"]
    /\ calls' = [calls EXCEPT ![r] = @ \o cs \o <<Call("send", body)>>]
    /\ responses' = [responses EXCEPT ![r] = Append(@, Response(status, body))]
    /\ loc' = [loc EXCEPT ![r] = l]

\* The locals after the awaited call op raised an exception.
Raised(r, op) == [loc[r] EXCEPT !.raised = op]

\* Suspend at the next await after the calls cs.
Goto(r, cs, next, l) ==
    /\ pc' = [pc EXCEPT ![r] = next]
    /\ calls' = [calls EXCEPT ![r] = @ \o cs]
    /\ loc' = [loc EXCEPT ![r] = l]
    /\ UNCHANGED responses

\* The server calls the middleware with a new scope.
Arrive(r, s) ==
    /\ pc[r] = "idle"
    /\ pc' = [pc EXCEPT ![r] = "start"]
    /\ scope' = [scope EXCEPT ![r] = s]
    /\ received' = [received EXCEPT ![r] = s.headers]
    /\ loc' = [loc EXCEPT ![r] = InitLoc]
    /\ calls' = [calls EXCEPT ![r] = <<>>]
    /\ responses' = [responses EXCEPT ![r] = <<>>]
    /\ app_scope' = [app_scope EXCEPT ![r] = <<>>]
    /\ UNCHANGED <<search, hook, auth, worker, clock, shared, user_id_ctx, team_id_ctx>>

\* main.py 113-145: scope type, health, allow-list (the warning formats
\* request.client.host, an AttributeError when the scope has no client,
\* caught at 289-295), the IAP header.
Start(r) ==
    /\ pc[r] = "start"
    /\ LET path == scope[r].path
           iap_jwt == HeadersGet(scope[r].headers, "X-Goog-IAP-JWT-Assertion")
           gotIap == <<Call("headers.get", "X-Goog-IAP-JWT-Assertion")>>
       IN  IF scope[r].type # "http"
           THEN /\ Goto(r, <<Call("app", "")>>, "passthrough", loc[r])
                /\ app_scope' = [app_scope EXCEPT ![r] = scope[r].headers]
           ELSE /\ UNCHANGED app_scope
                /\ IF PathIsHealth(path)
                   THEN Reply(r, <<>>, 200, "status ok", loc[r])
                   ELSE IF ~PathAllowed(path)
                   THEN IF scope[r].client
                        THEN Reply(r, <<>>, 403, "Forbidden", loc[r])
                        ELSE Reply(r, <<>>, 500, "Security validation failed",
                                   Raised(r, "request.client.host"))
                   ELSE IF Falsy(iap_jwt)
                   THEN Reply(r, gotIap, 401, "Authentication required (IAP)", loc[r])
                   ELSE Goto(r, gotIap \o <<Call("get_secret_value", "iapAudience")>>,
                             "await_iap_audience",
                             [loc[r] EXCEPT !.iap_jwt = iap_jwt])
    /\ UNCHANGED <<search, hook, auth, worker, clock, shared, scope, received, user_id_ctx, team_id_ctx>>

\* main.py 145-187: the audience secret arrives (or None: the key is in no
\* store); verify the assertion against what arrived, take
\* the caller's e-mail, decide whether the caller is the logic server.
IapAudienceReturns(r) ==
    /\ pc[r] = "await_iap_audience"
    /\ \E ok \in BOOLEAN :
        LET iap_audience == config.iapAudience
            payload == verify_iap_jwt(loc[r].iap_jwt, iap_audience)
            verified == <<Call("verify_iap_jwt", iap_audience)>>
            caller_email == payload.email
            is_logic_server == IsLogicServer(caller_email)
            user_id_token == HeadersGet(scope[r].headers, "X-User-ID-Token")
            gotTok == <<Call("headers.get", "X-User-ID-Token")>>
            l1 == [loc[r] EXCEPT !.iap_audience = iap_audience,
                                 !.caller_email = caller_email,
                                 !.final_user_email = caller_email,
                                 !.is_logic_server = is_logic_server]
        IN  IF ~ok
            THEN Reply(r, <<>>, 500, "Security validation failed",
                       Raised(r, "get_secret_value iapAudience"))
            ELSE IF ~payload.present
            THEN Reply(r, verified, 403, "Invalid IAP Assertion",
                       [loc[r] EXCEPT !.iap_audience = iap_audience])
            ELSE IF EmailMissing(caller_email)
            THEN Reply(r, verified, 403, "Email missing from identity",
                       [loc[r] EXCEPT !.iap_audience = iap_audience])
            ELSE IF is_logic_server
            THEN IF Falsy(user_id_token)
                 THEN Reply(r, verified \o gotTok, 401,
                            "X-User-ID-Token required for Logic Server", l1)
                 ELSE Goto(r, verified \o gotTok \o <<Call("get_secret_value", "iapClientId")>>,
                           "await_client_id", [l1 EXCEPT !.user_id_token = user_id_token])
            ELSE Goto(r, verified \o <<Call("get_secret_value", "slackBotToken")>>,
                      "await_bot_token", l1)
    /\ UNCHANGED <<search, hook, auth, worker, clock, shared, scope, received, app_scope, user_id_ctx, team_id_ctx>>

\* main.py 187-196, 76-93: the client id arrives (or None); verify the user
\* token against what arrived,
\* take its e-mail, enter the rate limiter and issue the log write.
ClientIdReturns(r) ==
    /\ pc[r] = "await_client_id"
    /\ \E ok \in BOOLEAN :
        LET client_id == config.iapClientId
            audience == UserTokenAudience(client_id)
            user_payload == verify_oauth2_token(loc[r].user_id_token, audience)
            verified == <<Call("verify_oauth2_token", audience)>>
            final_user_email == IF user_payload.raised THEN loc[r].final_user_email
                                ELSE user_payload.email
        IN  IF ~ok
            THEN Reply(r, <<>>, 403, "Invalid User ID Token",
                       Raised(r, "get_secret_value iapClientId"))
            ELSE IF user_payload.raised \/ final_user_email = NoEmail
            THEN Reply(r, verified, 403, "Invalid User ID Token",
                       [loc[r] EXCEPT !.client_id = client_id,
                                      !.final_user_email = final_user_email])
            ELSE Goto(r, verified \o <<Call("log.set", "")>>, "await_log_set",
                      [loc[r] EXCEPT !.client_id = client_id,
                                     !.final_user_email = final_user_email,
                                     !.now = clock,
                                     !.cutoff = clock - IMPERSONATION_WINDOW_SECONDS])
    /\ UNCHANGED <<search, hook, auth, worker, clock, shared, scope, received, app_scope, user_id_ctx, team_id_ctx>>

\* main.py 83-102: the log write completes (or raises); issue the query.
LogSetReturns(r) ==
    /\ pc[r] = "await_log_set"
    /\ \E ok \in BOOLEAN :
        IF ok
        THEN /\ log' = DocumentSet(log, LogDoc(loc[r].final_user_email, loc[r].now))
             /\ Goto(r, <<Call("log.query", "")>>, "await_log_query", loc[r])
        ELSE /\ UNCHANGED log
             /\ Reply(r, <<>>, 403, "Invalid User ID Token", Raised(r, "log.set"))
    /\ UNCHANGED <<search, hook, auth, worker, clock, granted, config, allowed_team_ids, allowed_enterprise_ids, scope,
                   received, app_scope, user_id_ctx, team_id_ctx>>

\* main.py 104-111, 196-225: the query's documents arrive; count the
\* distinct users, reject or scrub the header and go on.
LogQueryReturns(r) ==
    /\ pc[r] = "await_log_query"
    /\ \E ok \in BOOLEAN :
        LET unique_users == UniqueUsers(stream(log), loc[r].cutoff)
            l1 == [loc[r] EXCEPT !.unique_users = unique_users]
        IN  IF ~ok
            THEN Reply(r, <<>>, 403, "Invalid User ID Token", Raised(r, "log.query"))
                 /\ UNCHANGED <<scope, granted>>
            ELSE IF ~RateAllowed(unique_users)
            THEN Reply(r, <<>>, 429, "Impersonation rate limit exceeded", l1)
                 /\ UNCHANGED <<scope, granted>>
            ELSE /\ scope' = [scope EXCEPT ![r].headers = ScrubHeaders(@)]
                 /\ granted' = granted \cup {LogDoc(loc[r].final_user_email, loc[r].now)}
                 /\ Goto(r, <<Call("get_secret_value", "slackBotToken")>>,
                         "await_bot_token", l1)
    /\ UNCHANGED <<search, hook, auth, worker, clock, log, config, allowed_team_ids, allowed_enterprise_ids,
                   received, app_scope, user_id_ctx, team_id_ctx>>

\* main.py 225-232: the bot token arrives; issue the directory lookup.
BotTokenReturns(r) ==
    /\ pc[r] = "await_bot_token"
    /\ \E ok \in BOOLEAN :
        IF ok
        THEN Goto(r, <<Call("users_lookupByEmail", "")>>, "await_slack", loc[r])
        ELSE Reply(r, <<>>, 500, "Security validation failed",
                   Raised(r, "get_secret_value slackBotToken"))
    /\ UNCHANGED <<search, hook, auth, worker, clock, shared, scope, received, app_scope, user_id_ctx, team_id_ctx>>

\* main.py 229-267: the directory answers; take ids, call the authorization.
SlackLookupReturns(r) ==
    /\ pc[r] = "await_slack"
    /\ \E resp \in SlackResponses :
        LET l1 == [loc[r] EXCEPT !.slack_user_resp = resp]
        IN  IF resp.raises
            THEN Reply(r, <<>>, 500, "Security validation failed",
                       [l1 EXCEPT !.raised = "users_lookupByEmail"])
            ELSE IF ~LookupOk(resp)
            THEN Reply(r, <<>>, 403, "User not recognized in Slack workspace", l1)
            ELSE Goto(r, <<Call("is_user_authorized", "")>>, "await_authorized",
                      [l1 EXCEPT !.slack_user_id = resp.id,
                                 !.team_id = TeamIdOf(resp),
                                 !.enterprise_id = resp.enterprise_id])
    /\ UNCHANGED <<search, hook, auth, worker, clock, shared, scope, received, app_scope, user_id_ctx, team_id_ctx>>

\* security.py 15-32 (_get_whitelists): the lists after a call that finds
\* them unset and whose secret fetches succeed (ok) or raise.
LoadedTeams(ok) == IF ok THEN Loaded(SplitAndStrip(config.teamIdsForSearch)) ELSE Loaded(<<>>)
LoadedEnterprises(ok) ==
    IF ok THEN Loaded(SplitAndStrip(config.enterpriseIdsForSearch)) ELSE Loaded(<<>>)

\* main.py 265-282: the authorization answers (loading the allow-lists on
\* its first call); reject, or bind the identity and call the handler.
AuthorizedReturns(r) ==
    /\ pc[r] = "await_authorized"
    /\ \E raises \in BOOLEAN, ok \in (IF allowed_team_ids.loaded THEN {TRUE} ELSE BOOLEAN) :
        LET teams == IF allowed_team_ids.loaded THEN allowed_team_ids ELSE LoadedTeams(ok)
            enterprises ==
                IF allowed_team_ids.loaded THEN allowed_enterprise_ids
                ELSE LoadedEnterprises(ok)
            authorized ==
                is_user_authorized(loc[r].final_user_email, loc[r].team_id,
                                   loc[r].enterprise_id, teams.ids, enterprises.ids,
                                   config.iapDomain)
            l1 == [loc[r] EXCEPT !.authorized = authorized]
        IN  IF raises
            THEN /\ Reply(r, <<>>, 500, "Security validation failed",
                          Raised(r, "is_user_authorized"))
                 /\ UNCHANGED <<allowed_team_ids, allowed_enterprise_ids, app_scope,
                                user_id_ctx, team_id_ctx>>
            ELSE /\ allowed_team_ids' = teams
                 /\ allowed_enterprise_ids' = enterprises
                 /\ IF ~authorized
                    THEN /\ Reply(r, <<>>, 403,
                                  "Unauthorized access (Email Domain or Slack Workspace)", l1)
                         /\ UNCHANGED <<app_scope, user_id_ctx, team_id_ctx>>
                    ELSE /\ user_id_ctx' =
                              [user_id_ctx EXCEPT ![ContextOf(r)] = loc[r].slack_user_id]
                         /\ team_id_ctx' =
                              [team_id_ctx EXCEPT ![ContextOf(r)] = loc[r].team_id]
                         /\ app_scope' = [app_scope EXCEPT ![r] = scope[r].headers]
                         /\ Goto(r, <<Call("app", "")>>, "in_app",
                                 [l1 EXCEPT !.token = user_id_ctx[ContextOf(r)],
                                            !.team_token = team_id_ctx[ContextOf(r)]])
    /\ UNCHANGED <<search, hook, auth, worker, clock, log, granted, config, scope, received>>

\* main.py 414: the handler (search_slack_messages) reads team_id_ctx.
AppReads(r) ==
    /\ pc[r] = "in_app"
    /\ loc[r].handler_team_id = "unread"
    /\ loc' = [loc EXCEPT ![r].handler_team_id = team_id_ctx[ContextOf(r)]]
    /\ UNCHANGED <<search, hook, auth, worker, clock, shared, pc, scope, received, calls, responses, app_scope,
                   user_id_ctx, team_id_ctx>>

\* main.py 281-287: the handler sends its response and returns; unbind.
AppReturns(r) ==
    /\ pc[r] = "in_app"
    /\ pc' = [pc EXCEPT ![r] = "done"]
    /\ responses' = [responses EXCEPT ![r] = Append(@, Response(200, "handler"))]
    /\ user_id_ctx' = [user_id_ctx EXCEPT ![ContextOf(r)] = ContextReset(@, loc[r].token)]
    /\ team_id_ctx' =
         [team_id_ctx EXCEPT ![ContextOf(r)] = ContextReset(@, loc[r].team_token)]
    /\ UNCHANGED <<search, hook, auth, worker, clock, shared, scope, received, loc, calls, app_scope>>

\* main.py 281-295: the handler raises, before or after it started its
\* response; unbind, then the outer handler answers 500.
AppRaises(r) ==
    /\ pc[r] = "in_app"
    /\ \E started \in BOOLEAN :
        /\ pc' = [pc EXCEPT ![r] = "done"]
        /\ responses' =
             [responses EXCEPT ![r] =
                 (IF started THEN Append(@, Response(200, "handler")) ELSE @)
                 \o <<Response(500, "Security validation failed")>>]
        /\ calls' = [calls EXCEPT ![r] = Append(@, Call("send", "Security validation failed"))]
        /\ loc' = [loc EXCEPT ![r] = Raised(r, "app")]
    /\ user_id_ctx' = [user_id_ctx EXCEPT ![ContextOf(r)] = ContextReset(@, loc[r].token)]
    /\ team_id_ctx' =
         [team_id_ctx EXCEPT ![ContextOf(r)] = ContextReset(@, loc[r].team_token)]
    /\ UNCHANGED <<search, hook, auth, worker, clock, shared, scope, received, app_scope>>

\* main.py 114-116: a non-HTTP scope's handler finishes.
PassthroughReturns(r) ==
    /\ pc[r] = "passthrough"
    /\ pc' = [pc EXCEPT ![r] = "done"]
    /\ UNCHANGED <<search, hook, auth, worker, clock, shared, scope, received, loc, calls, responses, app_scope,
                   user_id_ctx, team_id_ctx>>

\* __call__ has returned: the server drops the request's scope and task.
Finish(r) ==
    /\ pc[r] = "done"
    /\ pc' = [pc EXCEPT ![r] = "idle"]
    /\ scope' = [scope EXCEPT ![r] = NoScope]
    /\ received' = [received EXCEPT ![r] = <<>>]
    /\ loc' = [loc EXCEPT ![r] = InitLoc]
    /\ calls' = [calls EXCEPT ![r] = <<>>]
    /\ responses' = [responses EXCEPT ![r] = <<>>]
    /\ app_scope' = [app_scope EXCEPT ![r] = <<>>]
    /\ UNCHANGED <<search, hook, auth, worker, clock, shared, user_id_ctx, team_id_ctx>>

\* Time passes: by one window, or by one second more than a window.
TickSteps == {IMPERSONATION_WINDOW_SECONDS, IMPERSONATION_WINDOW_SECONDS + 1}

Tick ==
    /\ \E d \in TickSteps :
        /\ clock + d <= MaxClock
        /\ clock' = clock + d
    /\ UNCHANGED <<search, hook, auth, worker, shared, pc, scope, received, loc, calls, responses, app_scope,
                   user_id_ctx, team_id_ctx>>

\* ------------------------------------------------------------ search tool
\* search_slack_messages (main.py 346-500) and the GlobalCache it shares with
\* every other call of the process.  One action per resumption of the
\* coroutine or of one task of a fan-out (asyncio.gather).
CHANNEL_INFO_TTL == 600
USER_NAME_TTL == 3600

\* The instants at which the search tool is observed; the clock stops at
\* MaxSearchClock.
MaxSearchClock == 1200
SearchInstants == {CHANNEL_INFO_TTL - 1, CHANNEL_INFO_TTL, 2 * CHANNEL_INFO_TTL}

\* The task (and so the context) the tool's coroutine runs in.
ToolSlot == 1

Channels == {"C_PUB", "C_HIDDEN"}
Users == {"U_A", "U_B"}

\* A row of the vector index: SELECT distinct base.channel, base.ts.
Row(channel, ts) == [channel |-> channel, ts |-> ts]
NoRows == <<>>
SomeRows == <<Row("C_PUB", <<"1700000001", ".", "000100">>),
              Row("C_HIDDEN", <<"1700000002", ".", "000200">>),
              Row("C_PUB", <<"1700000003", ".", "000300">>)>>
RowLists == {NoRows, SomeRows}

\* slack_client.conversations_info: it raises, or answers with ok false, or
\* with the channel's flags and name.
InfoRaises ==
    [raises |-> TRUE, ok |-> FALSE, is_private |-> FALSE, is_member |-> FALSE, name |-> ""]
InfoNotOk ==
    [raises |-> FALSE, ok |-> FALSE, is_private |-> FALSE, is_member |-> FALSE, name |-> ""]
InfoOk(is_private, is_member, name) ==
    [raises |-> FALSE, ok |-> TRUE, is_private |-> is_private, is_member |-> is_member,
     name |-> name]
NoInfo == InfoNotOk
InfoResponses ==
    {InfoRaises, InfoNotOk}
    \cup {InfoOk(p, m, "general") : p \in BOOLEAN, m \in BOOLEAN}

\* The decision for every channel whose lookup answered ok.
PermittedWhenOk(is_private, is_member) == TRUE

\* main.py 384: not is_private or is_member.
Permitted(is_private, is_member) == ~is_private \/ is_member

\* The dict check_channel_access builds; `info` remembers the answer the
\* decision was computed from and is not read by the code.
NoRes == [none |-> TRUE, permitted |-> FALSE, name |-> "", info |-> NoInfo]
Res(permitted, name, info) ==
    [none |-> FALSE, permitted |-> permitted, name |-> name, info |-> info]

\* main.py 377-384.
Decision(info) ==
    IF ~info.ok THEN Res(FALSE, "", info)
    ELSE Res(Permitted(info.is_private, info.is_member), info.name, info)

\* GlobalCache: channel_id -> (data, expiry), user_id -> (name, expiry).
\* `written` is history: the instant at which the entry was stored.
NoChannelEntry == [present |-> FALSE, data |-> NoRes, expiry |-> 0, written |-> 0]
NoUserEntry == [present |-> FALSE, name |-> "", expiry |-> 0]
\* `writers` is history: the user bound to the call that stored the entry.
EmptyCache ==
    [channel_info |-> [c \in Channels |-> NoChannelEntry],
     user_names |-> [u \in Users |-> NoUserEntry],
     writers |-> [c \in Channels |-> Unbound]]

\* An entry is served whatever its age.
get_channel_info_forever(ch, channel_id, now) ==
    IF ch.channel_info[channel_id].present THEN ch.channel_info[channel_id].data
    ELSE NoRes

\* An entry is still served at the instant of its expiry.
get_channel_info_inclusive(ch, channel_id, now) ==
    IF ch.channel_info[channel_id].present /\ now <= ch.channel_info[channel_id].expiry
    THEN ch.channel_info[channel_id].data
    ELSE NoRes

\* main.py 332-337.
get_channel_info(ch, channel_id, now) ==
    IF ch.channel_info[channel_id].present /\ now < ch.channel_info[channel_id].expiry
    THEN ch.channel_info[channel_id].data
    ELSE NoRes

\* main.py 339-340.
set_channel_info(ch, channel_id, data, now) ==
    [ch EXCEPT !.channel_info[channel_id] =
        [present |-> TRUE, data |-> data, expiry |-> now + CHANNEL_INFO_TTL,
         written |-> now]]

\* main.py 322-327; "" stands for None.
get_user_name(ch, user_id, now) ==
    IF ch.user_names[user_id].present /\ now < ch.user_names[user_id].expiry
    THEN ch.user_names[user_id].name
    ELSE ""

\* main.py 329-330.
set_user_name(ch, user_id, name, now) ==
    [ch EXCEPT !.user_names[user_id] =
        [present |-> TRUE, name |-> name, expiry |-> now + USER_NAME_TTL]]

\* slack_client.conversations_replies for a row: the thread's messages.
Message(ts, user, text) == [ts |-> ts, user |-> user, text |-> text, thread_ts |-> ts]
AuthorOf(row) == IF row.channel = "C_PUB" THEN "U_A" ELSE "U_B"
RepliesRaise == [raises |-> TRUE, ok |-> FALSE, messages |-> <<>>]
RepliesNotOk == [raises |-> FALSE, ok |-> FALSE, messages |-> <<>>]
RepliesOk(messages) == [raises |-> FALSE, ok |-> TRUE, messages |-> messages]
RepliesResponses(row) ==
    {RepliesRaise, RepliesNotOk, RepliesOk(<<Message(row.ts, AuthorOf(row), "hello")>>)}

\* slack_client.users_info.
UsersInfoRaises == [raises |-> TRUE, ok |-> FALSE, real_name |-> "", name |-> ""]
UsersInfoNotOk == [raises |-> FALSE, ok |-> FALSE, real_name |-> "", name |-> ""]
UsersInfoOk(real_name, name) ==
    [raises |-> FALSE, ok |-> TRUE, real_name |-> real_name, name |-> name]
UsersInfoResponses ==
    {UsersInfoRaises, UsersInfoNotOk, UsersInfoOk("Real Name", "handle"),
     UsersInfoOk("", "")}

\* main.py 448-452: real_name or name or user_id.
UserNameOf(u_resp, user_id) ==
    IF u_resp.real_name # "" THEN u_resp.real_name
    ELSE IF u_resp.name # "" THEN u_resp.name
    ELSE user_id

\* slack_client.team_info.
TeamRaises == [raises |-> TRUE, ok |-> FALSE, domain |-> "", id |-> ""]
TeamNotOk == [raises |-> FALSE, ok |-> FALSE, domain |-> "", id |-> ""]
TeamOk(domain, id) == [raises |-> FALSE, ok |-> TRUE, domain |-> domain, id |-> id]
NoTeam == TeamNotOk
TeamResponses == {TeamRaises, TeamNotOk, TeamOk("acme", "T_WS")}

\* get_secret_value("slackUserToken"): it raises, finds nothing, or
\* returns the token.
SecretRaises == "<raises>"
SecretResponses == {SecretRaises, "", "xoxp-token"}

\* The identities a caller can have bound before it calls the tool.
Identity(user_id, team_id) == [user_id |-> user_id, team_id |-> team_id]
Identities == {Identity(Unbound, Unbound), Identity("U1", "T1"), Identity("U2", "T1")}

\* A text handed back as an error.
ExplainAsError(text) == [kind |-> "error", text |-> text, error |-> "", messages |-> <<>>]

\* What the call handed back: a text, or the messages json.dumps renders;
\* `error` names the step whose exception the text reports.
NoResult == [kind |-> "none", text |-> "", error |-> "", messages |-> <<>>]
Explain(text) == [kind |-> "text", text |-> text, error |-> "", messages |-> <<>>]
ErrorResult(step) ==
    [kind |-> "error", text |-> "Error during search: ", error |-> step, messages |-> <<>>]
Json(messages) == [kind |-> "json", text |-> "", error |-> "", messages |-> messages]

\* The locals of search_slack_messages.  checks, threads and names hold the
\* state of the tasks of the three fan-outs ("created" until the event loop
\* has run the task's first step), check_ids and name_ids the order in which
\* gather was handed them.  History: searched tells that the index answered;
\* checked_at and seen remember, per channel, the instant of the task's cache
\* lookup and the entry it found; decided_at the instant at which the upstream
\* lookup behind the channel's decision was answered; returned_at the instant
\* of the return.
IdleTool ==
    [pc |-> "idle", token |-> "", searched |-> FALSE, results |-> <<>>,
     check_ids |-> <<>>,
     checks |-> [c \in Channels |-> "none"],
     checked_at |-> [c \in Channels |-> 0],
     decided_at |-> [c \in Channels |-> 0],
     seen |-> [c \in Channels |-> NoChannelEntry],
     permitted_channels |-> [c \in Channels |-> NoRes],
     filtered_results |-> <<>>,
     team_domain |-> "", team_id |-> "",
     threads |-> <<>>, thread_data |-> <<>>,
     name_ids |-> <<>>,
     names |-> [u \in Users |-> "none"],
     user_map |-> [u \in Users |-> ""],
     upstream |-> <<>>, returned_at |-> 0, result |-> NoResult]

\* The coroutine suspends at `next` having issued `issued`.
ToolGoto(t, next, issued) == [t EXCEPT !.pc = next, !.upstream = @ \o issued]

\* The coroutine returns `result`.
ToolReturn(t, result) ==
    [t EXCEPT !.pc = "returned", !.result = result, !.returned_at = clock]

\* An exception leaves search_slack_messages.
ToolRaise(t, step) ==
    [t EXCEPT !.pc = "raised", !.result = ErrorResult(step), !.returned_at = clock]

\* Iterating a Python set of strings: each member once, in an order that
\* follows the string hashes (which differ from process to process), so
\* every order can occur.
Orderings(S) ==
    {q \in [1..Cardinality(S) -> S] : \A i, j \in 1..Cardinality(S) : q[i] = q[j] => i = j}

\* main.py 393: `set(row["channel"] for row in results)`, the channels of
\* the rows; list(...) of it is one of its Orderings.
unique_channels(results) == {results[i].channel : i \in 1..Len(results)}

\* Every row passes.
FilterNothing(results, permitted_channels) == results

\* A filter that looks at the caller: nothing passes for the user "U2".
FilterForBoundUser(results, permitted_channels) ==
    IF user_id_ctx[ContextOf(ToolSlot)] = "U2" THEN <<>>
    ELSE SelectSeq(results, LAMBDA row : permitted_channels[row.channel].permitted)

\* main.py 397-401.
Filter(results, permitted_channels) ==
    SelectSeq(results, LAMBDA row : permitted_channels[row.channel].permitted)

\* `ts_str.replace(".", "")`.
ts_digits(ts) == SelectSeq(ts, LAMBDA piece : piece # ".")

\* main.py 473-475.
Url(team_domain, channel_id, msg) ==
    <<"https://", team_domain, ".slack.com/archives/", channel_id, "/p">>
    \o ts_digits(msg.ts)
    \o (IF msg.thread_ts # <<>> /\ msg.thread_ts # msg.ts
        THEN <<"?thread_ts=">> \o msg.thread_ts \o <<"&cid=", channel_id>>
        ELSE <<>>)

\* main.py 477-489: one message of the output.
FinalMessage(t, channel_id, msg) ==
    [text |-> msg.text,
     team_id |-> t.team_id,
     channel_id |-> channel_id,
     channel_name |-> IF t.permitted_channels[channel_id].none
                      THEN "unknown-channel"
                      ELSE t.permitted_channels[channel_id].name,
     ts |-> msg.ts,
     user_id |-> msg.user,
     user_name |-> IF msg.user \in Users /\ t.names[msg.user] # "none"
                   THEN t.user_map[msg.user] ELSE "unknown-user",
     url |-> Url(t.team_domain, channel_id, msg),
     thread_ts |-> msg.thread_ts]

\* main.py 465-489.
RECURSIVE final_messages(_, _)
final_messages(t, n) ==
    IF n = 0 THEN <<>>
    ELSE final_messages(t, n - 1)
         \o [k \in 1..Len(t.thread_data[n].messages) |->
                FinalMessage(t, t.thread_data[n].channel, t.thread_data[n].messages[k])]

\* asyncio.gather wraps every coroutine it is handed in a task; the event
\* loop runs the first step of the tasks in the order of their creation:
\* the position in ids of the next task still to start (0: none).
NextCreated(ids, state) ==
    IF \E i \in 1..Len(ids) : state[ids[i]] = "created"
    THEN CHOOSE i \in 1..Len(ids) :
            /\ state[ids[i]] = "created"
            /\ \A j \in 1..(i - 1) : state[ids[j]] # "created"
    ELSE 0

\* Every task of a fan-out has ended: gather's future has its result.
Gathered(states) == states \subseteq {"none", "done", "cached", "failed"}

RECURSIVE UsersIn(_, _)
UsersIn(thread_data, n) ==
    IF n = 0 THEN <<>>
    ELSE UsersIn(thread_data, n - 1)
         \o [k \in 1..Len(thread_data[n].messages) |-> thread_data[n].messages[k].user]

\* main.py 433-437: the set of the users of the fetched messages.
all_user_ids(thread_data) ==
    LET users == UsersIn(thread_data, Len(thread_data))
    IN {users[i] : i \in 1..Len(users)} \ {""}

\* `value or ...` for a ContextVar's value.
Truthy(value) == value # Unbound /\ value # ""

\* The gateway's state, which the tool's own code never touches.
gateway == <<shared, pc, scope, received, loc, calls, responses, app_scope>>

\* A caller with `id` bound in its context calls the tool (main.py 346-350).
Invoke(id) ==
    /\ tool.pc = "idle"
    /\ user_id_ctx' = [user_id_ctx EXCEPT ![ContextOf(ToolSlot)] = id.user_id]
    /\ team_id_ctx' = [team_id_ctx EXCEPT ![ContextOf(ToolSlot)] = id.team_id]
    /\ tool' = ToolGoto(IdleTool, "secret", <<Call("get_secret_value", "slackUserToken")>>)
    /\ UNCHANGED <<clock, gateway, hook, auth, worker, cache>>

\* main.py 350-356.
SecretReturns(token) ==
    /\ tool.pc = "secret"
    /\ tool' = IF token = SecretRaises THEN ToolRaise(tool, "get_secret_value")
               ELSE IF token = "" THEN ToolReturn(tool, Explain("No Slack token found."))
               ELSE ToolGoto([tool EXCEPT !.token = token], "client",
                             <<Call("create_client_for_token", token)>>)
    /\ UNCHANGED <<clock, gateway, hook, auth, worker, cache, user_id_ctx, team_id_ctx>>

\* main.py 356-359.
ClientReturns(raises) ==
    /\ tool.pc = "client"
    /\ tool' = IF raises THEN ToolReturn(tool, ErrorResult("create_client_for_token"))
               ELSE ToolGoto(tool, "embeddings", <<Call("generate_embeddings", "query")>>)
    /\ UNCHANGED <<clock, gateway, hook, auth, worker, cache, user_id_ctx, team_id_ctx>>

\* main.py 359-362.
EmbeddingsReturn(raises) ==
    /\ tool.pc = "embeddings"
    /\ tool' = IF raises THEN ToolReturn(tool, ErrorResult("generate_embeddings"))
               ELSE ToolGoto(tool, "vector", <<Call("perform_vector_search", "embeddings")>>)
    /\ UNCHANGED <<clock, gateway, hook, auth, worker, cache, user_id_ctx, team_id_ctx>>

\* main.py 362-394: the index answers; with rows, gather creates one task
\* per channel, in the order of list(set(...)), and the call suspends.
VectorSearchReturns(raises, rows) ==
    /\ tool.pc = "vector"
    /\ \E ids \in Orderings(unique_channels(rows)) :
         tool' = IF raises THEN ToolReturn(tool, ErrorResult("perform_vector_search"))
                 ELSE IF rows = <<>>
                 THEN ToolReturn([tool EXCEPT !.searched = TRUE], Explain("No messages found."))
                 ELSE [tool EXCEPT !.pc = "access",
                                   !.searched = TRUE,
                                   !.results = rows,
                                   !.check_ids = ids,
                                   !.checks = [c \in Channels |->
                                                  IF InSeq(c, ids) THEN "created" ELSE "none"]]
    /\ UNCHANGED <<clock, gateway, hook, auth, worker, cache, user_id_ctx, team_id_ctx>>

\* main.py 369-376: the first step of the next check_channel_access task:
\* a cached decision ends the task, otherwise the lookup is issued.
StartCheck ==
    /\ tool.pc = "access"
    /\ NextCreated(tool.check_ids, tool.checks) # 0
    /\ LET c == tool.check_ids[NextCreated(tool.check_ids, tool.checks)]
           cached == get_channel_info(cache, c, clock)
       IN tool' = IF cached.none
                  THEN [tool EXCEPT !.checks[c] = "pending",
                                    !.checked_at[c] = clock,
                                    !.seen[c] = cache.channel_info[c],
                                    !.upstream = @ \o <<Call("conversations_info", c)>>]
                  ELSE [tool EXCEPT !.checks[c] = "cached",
                                    !.checked_at[c] = clock,
                                    !.seen[c] = cache.channel_info[c],
                                    !.decided_at[c] = cache.channel_info[c].written,
                                    !.permitted_channels[c] = cached]
    /\ UNCHANGED <<clock, gateway, hook, auth, worker, cache, user_id_ctx, team_id_ctx>>

\* main.py 376-391: the lookup of one channel answers or raises; the task
\* ends.
InfoReturns(c, info) ==
    /\ tool.pc = "access"
    /\ tool.checks[c] = "pending"
    /\ IF info.raises
       THEN /\ tool' = [tool EXCEPT !.checks[c] = "failed"]
            /\ UNCHANGED cache
       ELSE LET res == Decision(info)
            IN /\ cache' = [set_channel_info(cache, c, res, clock)
                               EXCEPT !.writers[c] = user_id_ctx[ContextOf(ToolSlot)]]
               /\ tool' = [tool EXCEPT !.checks[c] = "done",
                                       !.decided_at[c] = clock,
                                       !.permitted_channels[c] = res]
    /\ UNCHANGED <<clock, gateway, hook, auth, worker, user_id_ctx, team_id_ctx>>

\* The lookup for one channel never answers.
InfoHangs(c) ==
    /\ tool.pc = "access"
    /\ tool.checks[c] = "pending"
    /\ tool' = [tool EXCEPT !.checks[c] = "hung"]
    /\ UNCHANGED <<clock, gateway, hook, auth, worker, cache, user_id_ctx, team_id_ctx>>

\* main.py 394-407: every check has ended and the call resumes: the rows
\* are filtered; the call returns or asks for the workspace.
JoinChecks ==
    /\ tool.pc = "access"
    /\ Gathered({tool.checks[c] : c \in Channels})
    /\ LET filtered_results == Filter(tool.results, tool.permitted_channels)
       IN tool' = IF filtered_results = <<>>
                  THEN ToolReturn(tool,
                                  Explain("No messages found in your authorized channels."))
                  ELSE ToolGoto([tool EXCEPT !.filtered_results = filtered_results],
                                "team", <<Call("team_info", "")>>)
    /\ UNCHANGED <<clock, gateway, hook, auth, worker, cache, user_id_ctx, team_id_ctx>>

\* main.py 407-430: the workspace answers; gather creates one
\* fetch_thread_messages task per filtered row and the call suspends.
TeamInfoReturns(team_resp) ==
    /\ tool.pc = "team"
    /\ tool' = IF team_resp.raises \/ ~team_resp.ok
               THEN ToolReturn(tool, ErrorResult("team_info"))
               ELSE [tool EXCEPT
                        !.pc = "threads",
                        !.team_domain = team_resp.domain,
                        !.team_id = IF Truthy(team_id_ctx[ContextOf(ToolSlot)])
                                    THEN team_id_ctx[ContextOf(ToolSlot)]
                                    ELSE team_resp.id,
                        !.threads = [i \in 1..Len(tool.filtered_results) |-> "created"],
                        !.thread_data = [i \in 1..Len(tool.filtered_results) |->
                                            [channel |-> tool.filtered_results[i].channel,
                                             messages |-> <<>>]]]
    /\ UNCHANGED <<clock, gateway, hook, auth, worker, cache, user_id_ctx, team_id_ctx>>

\* main.py 417-421: the first step of the next fetch_thread_messages task
\* issues the fetch; the call is recorded under the seconds of the row's ts.
StartThread ==
    /\ tool.pc = "threads"
    /\ \E i \in 1..Len(tool.threads) :
          /\ tool.threads[i] = "created"
          /\ \A j \in 1..(i - 1) : tool.threads[j] # "created"
          /\ tool' = [tool EXCEPT
                         !.threads[i] = "pending",
                         !.upstream = @ \o <<Call("conversations_replies",
                                                  tool.filtered_results[i].ts[1])>>]
    /\ UNCHANGED <<clock, gateway, hook, auth, worker, cache, user_id_ctx, team_id_ctx>>

\* Every fetch counts as failed.
thread_messages_none(resp) == <<>>

\* main.py 418-426: what fetch_thread_messages returns for the row.
thread_messages(resp) == IF ~resp.raises /\ resp.ok THEN resp.messages ELSE <<>>

\* main.py 418-426: the fetch of one row answers or raises; the task ends.
RepliesReturn(i, resp) ==
    /\ tool.pc = "threads"
    /\ i \in 1..Len(tool.threads)
    /\ tool.threads[i] = "pending"
    /\ tool' = [tool EXCEPT
                   !.threads[i] = IF ~resp.raises /\ resp.ok THEN "done" ELSE "failed",
                   !.thread_data[i].messages = thread_messages(resp)]
    /\ UNCHANGED <<clock, gateway, hook, auth, worker, cache, user_id_ctx, team_id_ctx>>

\* The fetch for one row never answers.
RepliesHang(i) ==
    /\ tool.pc = "threads"
    /\ i \in 1..Len(tool.threads)
    /\ tool.threads[i] = "pending"
    /\ tool' = [tool EXCEPT !.threads[i] = "hung"]
    /\ UNCHANGED <<clock, gateway, hook, auth, worker, cache, user_id_ctx, team_id_ctx>>

\* main.py 428-461: every fetch has ended and the call resumes: the users
\* are collected and gather creates one fetch_user_name task per user, in
\* the order of the iteration of the set; with no user gather's future is
\* done already, the await does not suspend and the output (465-492) is
\* built at once.
JoinThreads ==
    /\ tool.pc = "threads"
    /\ Gathered({tool.threads[i] : i \in 1..Len(tool.threads)})
    /\ \E ids \in Orderings(all_user_ids(tool.thread_data)) :
          tool' = IF ids = <<>>
                  THEN ToolReturn(tool, Json(final_messages(tool, Len(tool.thread_data))))
                  ELSE [tool EXCEPT !.pc = "names",
                                    !.name_ids = ids,
                                    !.names = [u \in Users |->
                                                  IF InSeq(u, ids) THEN "created" ELSE "none"]]
    /\ UNCHANGED <<clock, gateway, hook, auth, worker, cache, user_id_ctx, team_id_ctx>>

\* main.py 440-446: the first step of the next fetch_user_name task: a
\* cached name ends the task, otherwise the lookup is issued.
StartName ==
    /\ tool.pc = "names"
    /\ NextCreated(tool.name_ids, tool.names) # 0
    /\ LET u == tool.name_ids[NextCreated(tool.name_ids, tool.names)]
           cached_name == get_user_name(cache, u, clock)
       IN tool' = IF cached_name = ""
                  THEN [tool EXCEPT !.names[u] = "pending",
                                    !.upstream = @ \o <<Call("users_info", u)>>]
                  ELSE [tool EXCEPT !.names[u] = "cached",
                                    !.user_map[u] = cached_name]
    /\ UNCHANGED <<clock, gateway, hook, auth, worker, cache, user_id_ctx, team_id_ctx>>

\* main.py 446-457: the lookup of one user answers or raises; the task ends.
UsersInfoReturns(u, u_resp) ==
    /\ tool.pc = "names"
    /\ tool.names[u] = "pending"
    /\ IF ~u_resp.raises /\ u_resp.ok
       THEN LET user_name == UserNameOf(u_resp, u)
            IN /\ cache' = set_user_name(cache, u, user_name, clock)
               /\ tool' = [tool EXCEPT !.names[u] = "done", !.user_map[u] = user_name]
       ELSE /\ tool' = [tool EXCEPT !.names[u] = "failed", !.user_map[u] = "unknown-user"]
            /\ UNCHANGED cache
    /\ UNCHANGED <<clock, gateway, hook, auth, worker, user_id_ctx, team_id_ctx>>

\* The lookup for one user never answers.
UsersInfoHangs(u) ==
    /\ tool.pc = "names"
    /\ tool.names[u] = "pending"
    /\ tool' = [tool EXCEPT !.names[u] = "hung"]
    /\ UNCHANGED <<clock, gateway, hook, auth, worker, cache, user_id_ctx, team_id_ctx>>

\* main.py 459-492: every lookup has ended and the call resumes: the
\* output is built and returned.
JoinNames ==
    /\ tool.pc = "names"
    /\ Gathered({tool.names[u] : u \in Users})
    /\ tool' = ToolReturn(tool, Json(final_messages(tool, Len(tool.thread_data))))
    /\ UNCHANGED <<clock, gateway, hook, auth, worker, cache, user_id_ctx, team_id_ctx>>

\* The caller has the outcome; the next call starts with fresh locals.
ToolFinish ==
    /\ tool.pc \in {"returned", "raised"}
    /\ tool' = IdleTool
    /\ UNCHANGED <<clock, gateway, hook, auth, worker, cache, user_id_ctx, team_id_ctx>>

\* Time passes to a later instant.
SearchTick ==
    /\ \E t \in SearchInstants :
        /\ t > clock
        /\ t <= MaxSearchClock
        /\ clock' = t
    /\ UNCHANGED <<gateway, search, hook, auth, worker, user_id_ctx, team_id_ctx>>

\* ------------------------------------------------------------ allow-list check
\* shared.security (security.py 10-69) as the webhook service and the tasks
\* of one process use it.
\* The lists are fetched again whenever the team list is empty.
ListsUnsetOrEmpty(teams) == ~teams.loaded \/ teams.ids = <<>>

\* security.py 17: `if _allowed_team_ids is None`.
ListsUnset(teams) == ~teams.loaded

\* security.py 53-69 on the lists _get_whitelists returned: `not None` and
\* `not []` are both true; `enterprise_id in None` raises TypeError.
TeamCheck(team_id, enterprise_id, teams, enterprises) ==
    IF teams.ids = <<>> /\ enterprises.ids = <<>> THEN "False"
    ELSE IF InSeq(team_id, teams.ids) THEN "True"
    ELSE IF enterprise_id = "" THEN "False"
    ELSE IF ~enterprises.loaded THEN "TypeError"
    ELSE IF InSeq(enterprise_id, enterprises.ids) THEN "True"
    ELSE "False"

\* ------------------------------------------------------------ webhook service
\* services/aibot_logic/main.py run as K_SERVICE = "aibot-webhook":
\* SecurityMiddleware.dispatch in front of the routes slack_events and login.
\* The allow-lists are the ones of shared.security in the webhook's process.
\* One action per resumption of the request's coroutine.

\* The object under "event": its type, channel_type, bot_id (present or
\* not), subtype, channel, ts, and the ids under team, user_team, enterprise.
HookEvent(type, channel_type, bot_id, subtype, channel, ts, team, user_team, enterprise) ==
    [type |-> type, channel_type |-> channel_type, bot_id |-> bot_id,
     subtype |-> subtype, channel |-> channel, ts |-> ts, team |-> team,
     user_team |-> user_team, enterprise |-> enterprise]

\* `payload.get("event") or {}` for a payload without event.
NoEvent == HookEvent("", "", FALSE, "", "", "", "", "", "")

\* A channel message that names no workspace.
PlainEvent == HookEvent("message", "channel", FALSE, "", "C1", "1.0", "", "", "")

\* A payload: its type, team_id, enterprise_id, the id of the object under
\* "team" and the event; "" stands for a missing key.
HookPayload(type, team_id, enterprise_id, team, event) ==
    [type |-> type, team_id |-> team_id, enterprise_id |-> enterprise_id,
     team |-> team, event |-> event]

\* The JSON object {}.
EmptyPayload == HookPayload("", "", "", "", NoEvent)

\* A challenge; events that name their workspace in each of the places
\* get_team_id_from_payload and get_enterprise_id_from_payload look at; and
\* events of team T1 that the route acknowledges with a reaction or not.
HookPayloads ==
    {EmptyPayload,
     HookPayload("url_verification", "", "", "", NoEvent),
     HookPayload("event_callback", "T1", "", "", PlainEvent),
     HookPayload("event_callback", "T_BAD", "", "", PlainEvent),
     HookPayload("event_callback", "", "E1", "", PlainEvent),
     HookPayload("event_callback", "", "", "", [PlainEvent EXCEPT !.team = "T2"]),
     HookPayload("event_callback", "", "", "", [PlainEvent EXCEPT !.user_team = "T1"]),
     HookPayload("event_callback", "", "", "", [PlainEvent EXCEPT !.enterprise = "E1"]),
     HookPayload("block_actions", "", "", "T1", NoEvent),
     HookPayload("event_callback", "T1", "", "",
                 HookEvent("app_mention", "channel", FALSE, "", "C1", "1.0", "", "", "")),
     HookPayload("event_callback", "T1", "", "",
                 HookEvent("app_mention", "channel", FALSE, "", "C1", "", "", "", "")),
     HookPayload("event_callback", "T1", "", "",
                 HookEvent("message", "im", FALSE, "message_changed", "D1", "1.0", "", "", ""))}

\* A request body: the JSON text of a payload ("json"), a form whose field
\* 'payload' holds that JSON text ("form"), or text that is neither.
HookBody(format, payload) == [format |-> format, payload |-> payload]
HookBodies ==
    {HookBody(f, p) : f \in {"json", "form"}, p \in HookPayloads}
    \cup {HookBody("text", EmptyPayload)}

ContentTypes ==
    {<<"application/json">>, <<"application/json", "; charset=utf-8">>,
     <<"application/x-www-form-urlencoded">>, <<"text/plain">>, <<>>}

\* client: the ASGI scope names the peer (Request.client is not None);
\* query: the query string carries slack_user_id.
HookRequest(path, method, signed, content_type, body, client, query) ==
    [path |-> path, method |-> method, signed |-> signed,
     content_type |-> content_type, body |-> body, client |-> client,
     query |-> query]
NoHookRequest == HookRequest("", "", FALSE, <<>>, HookBody("text", EmptyPayload), FALSE, FALSE)

\* Requests to the two Slack endpoints in every combination, and requests
\* to the health route, the login route and an unlisted path.
HookRequests ==
    {HookRequest(p, "POST", s, ct, b, TRUE, FALSE) :
        p \in {"/slack/events", "/slack/interactivity"}, s \in BOOLEAN,
        ct \in ContentTypes, b \in HookBodies}
    \cup {HookRequest(p, "GET", FALSE, <<>>, HookBody("text", EmptyPayload), c, q) :
            p \in {"/slack/events", "/health", "/auth/login", "/admin"},
            c \in BOOLEAN, q \in BOOLEAN}

\* aibot_logic/main.py 70-77: allowed_paths of the webhook service.
HookAllowedPaths ==
    {"/slack/events", "/slack/interactivity", "/slack/install", "/slack/oauth-redirect"}

\* path.startswith("/auth/") for the paths of the model.
StartsWithAuth(path) == path = "/auth/login"

\* json.loads(body): the payload, or an exception.
json_loads(body) ==
    IF body.format = "json" THEN [raises |-> FALSE, payload |-> body.payload]
    ELSE [raises |-> TRUE, payload |-> EmptyPayload]

\* aibot_logic/main.py 113-125: the payload the middleware extracts.
ExtractPayload(content_type, body) ==
    IF IsSubstring(<<"application/json">>, content_type) THEN json_loads(body)
    ELSE IF IsSubstring(<<"application/x-www-form-urlencoded">>, content_type)
              /\ body.format = "form"
         THEN [raises |-> FALSE, payload |-> body.payload]
    ELSE [raises |-> FALSE, payload |-> EmptyPayload]

\* security.py 72-85: the first of team_id, enterprise_id, event.team,
\* event.user_team and team.id that is there ("" stands for None).
get_team_id_from_payload(payload) ==
    IF payload.team_id # "" THEN payload.team_id
    ELSE IF payload.enterprise_id # "" THEN payload.enterprise_id
    ELSE IF payload.event.team # "" THEN payload.event.team
    ELSE IF payload.event.user_team # "" THEN payload.event.user_team
    ELSE payload.team

\* security.py 88-91: enterprise_id, or event.enterprise.
get_enterprise_id_from_payload(payload) ==
    IF payload.enterprise_id # "" THEN payload.enterprise_id
    ELSE payload.event.enterprise

\* security.py 35-46: false on a bad signature and on any exception.
verify_slack_request(signed, raises) == ~raises /\ signed

\* aibot_logic/main.py 384-392: the events slack_events acknowledges with
\* the eyes reaction, when they name channel and ts.
should_react(event) ==
    /\ \/ event.type = "app_mention"
       \/ /\ event.type = "message"
          /\ event.channel_type = "im"
          /\ ~event.bot_id
          /\ event.subtype = ""
    /\ event.channel # ""
    /\ event.ts # ""

HookResponse(status, content) == [status |-> status, content |-> content]
NoHookResponse == HookResponse(0, "")

\* `history` fields: asked and authorized record the answer of
\* is_team_authorized, handled that slack_events was entered, reaction
\* whether the eyes reaction was "added" or "failed", published that
\* publish_to_topic returned.
IdleHook ==
    [pc |-> "idle", request |-> NoHookRequest, is_valid |-> FALSE,
     payload |-> EmptyPayload, asked |-> FALSE, authorized |-> FALSE,
     handled |-> FALSE, reaction |-> "none", published |-> FALSE,
     response |-> NoHookResponse]

\* The state of the MCP service, which the webhook service does not share.
mcp ==
    <<clock, log, granted, pc, scope, received, loc, calls, responses, app_scope,
      user_id_ctx, team_id_ctx, search>>

\* The request is answered.
HookReply(h, status, content) ==
    [h EXCEPT !.pc = "done", !.response = HookResponse(status, content)]

\* An exception leaves dispatch or the route: global_exception_handler
\* (aibot_logic/main.py 175-191) answers.
HookRaise(h) == HookReply(h, 500, "Internal Server Error")

\* aibot_logic/main.py 371-398: slack_events from the resumption of
\* `await request.json()` to its next await or to its response; it parses
\* the body as JSON itself whatever the content type.
slack_events(h) ==
    LET parsed == json_loads(h.request.body)
    IN IF parsed.raises THEN HookRaise(h)
       ELSE IF parsed.payload.type = "url_verification"
       THEN HookReply(h, 200, "challenge")
       ELSE IF should_react(parsed.payload.event)
       THEN [h EXCEPT !.pc = "await_bot_client"]
       ELSE [h EXCEPT !.pc = "await_publish"]

\* aibot_logic/main.py 64, 131, 143: `await call_next(request)`; the route
\* runs in a task of its own, which has not started when dispatch is
\* suspended here.
CallNext(h) == [h EXCEPT !.pc = "call_next"]

\* aibot_logic/main.py 135-142: what dispatch does with the answer of
\* is_team_authorized (TypeError: the call raised).
HookAuthorized(h, result) ==
    IF result = "True" THEN CallNext([h EXCEPT !.asked = TRUE, !.authorized = TRUE])
    ELSE IF result = "False"
    THEN HookReply([h EXCEPT !.asked = TRUE], 200, "Unauthorized Workspace")
    ELSE HookRaise([h EXCEPT !.asked = TRUE])

\* is_team_authorized for the payload dispatch extracted, on the lists
\* _get_whitelists returned.
HookTeamCheck(h, teams, enterprises) ==
    TeamCheck(get_team_id_from_payload(h.payload),
              get_enterprise_id_from_payload(h.payload), teams, enterprises)

\* aibot_logic/main.py 58-100, 143: a request arrives; dispatch runs to its
\* first await (of the body or of call_next) or to its response.  The warning before the 403 formats
\* request.client.host.
HookArrive(req) ==
    /\ hook.pc = "idle"
    /\ LET h == [IdleHook EXCEPT !.request = req]
       IN hook' =
            IF req.path = "/health" THEN CallNext(h)
            ELSE IF req.path \notin HookAllowedPaths /\ ~StartsWithAuth(req.path)
            THEN IF req.client THEN HookReply(h, 403, "Forbidden") ELSE HookRaise(h)
            ELSE IF req.path \in {"/slack/events", "/slack/interactivity"}
                    /\ req.method = "POST"
            THEN [h EXCEPT !.pc = "await_body"]
            ELSE CallNext(h)
    /\ UNCHANGED <<mcp, auth, worker, config, allowed_team_ids, allowed_enterprise_ids>>

\* aibot_logic/main.py 319-321, 369-371, 419-422: the task of the route
\* starts.  /health answers, login asks for the refresh token of its user
\* (a request without user_id is answered 422), a path or method without
\* route is answered by the router, and slack_events is entered and
\* suspended at `await request.json()`.
HookRouteStarts ==
    /\ hook.pc = "call_next"
    /\ LET req == hook.request
       IN hook' =
            IF req.path = "/health" THEN HookReply(hook, 200, "ok")
            ELSE IF req.path = "/auth/login"
            THEN IF req.query THEN [hook EXCEPT !.pc = "await_google_token"]
                 ELSE HookReply(hook, 422, "Unprocessable Entity")
            ELSE IF req.path # "/slack/events" THEN HookReply(hook, 404, "Not Found")
            ELSE IF req.method # "POST" THEN HookReply(hook, 405, "Method Not Allowed")
            ELSE [hook EXCEPT !.handled = TRUE, !.pc = "await_json"]
    /\ UNCHANGED <<mcp, auth, worker, config, allowed_team_ids, allowed_enterprise_ids>>

\* aibot_logic/main.py 371-398: request.json() returns the cached body to
\* slack_events, which answers the challenge, raises on a body that is no
\* JSON, or calls add_reaction or publish_to_topic.
HookJsonReturns ==
    /\ hook.pc = "await_json"
    /\ hook' = slack_events(hook)
    /\ UNCHANGED <<mcp, auth, worker, config, allowed_team_ids, allowed_enterprise_ids>>

\* aibot_logic/main.py 100-103, security.py 35-38: the body is read;
\* verify_slack_request asks for the signing secret.
HookBodyReturns ==
    /\ hook.pc = "await_body"
    /\ hook' = [hook EXCEPT !.pc = "await_verify"]
    /\ UNCHANGED <<mcp, auth, worker, config, allowed_team_ids, allowed_enterprise_ids>>

\* aibot_logic/main.py 103-142, security.py 15-19: the signing secret arrives
\* (or its fetch raises) and the signature is checked; reject, or extract the
\* payload and await call_next, or ask is_team_authorized, which answers at
\* once when the team list is set (dispatch then awaits call_next or
\* rejects) and asks for the first secret otherwise.
HookVerifyReturns(raises) ==
    /\ hook.pc = "await_verify"
    /\ LET is_valid == verify_slack_request(hook.request.signed, raises)
           parsed == ExtractPayload(hook.request.content_type, hook.request.body)
           h1 == [hook EXCEPT !.is_valid = is_valid]
           h2 == [h1 EXCEPT !.payload = parsed.payload]
       IN hook' =
            IF ~is_valid THEN HookReply(h1, 401, "Invalid Slack signature")
            ELSE IF parsed.raises THEN HookRaise(h1)
            ELSE IF parsed.payload = EmptyPayload
                    \/ parsed.payload.type = "url_verification"
            THEN CallNext(h2)
            ELSE IF ListsUnset(allowed_team_ids)
            THEN [h2 EXCEPT !.pc = "await_team_ids"]
            ELSE HookAuthorized(h2, HookTeamCheck(h2, allowed_team_ids,
                                                  allowed_enterprise_ids))
    /\ UNCHANGED <<mcp, auth, worker, config, allowed_team_ids, allowed_enterprise_ids>>

\* security.py 19-24, 28-32: teamIdsForSearch arrives and the team list is
\* assigned; None fails at .split and is caught like an exception of the
\* fetch, which sets both lists to [].
HookTeamIdsReturn(outcome) ==
    /\ hook.pc = "await_team_ids"
    /\ IF outcome = "value"
       THEN /\ allowed_team_ids' = Loaded(SplitAndStrip(config.teamIdsForSearch))
            /\ hook' = [hook EXCEPT !.pc = "await_enterprise_ids"]
            /\ UNCHANGED allowed_enterprise_ids
       ELSE /\ allowed_team_ids' = Loaded(<<>>)
            /\ allowed_enterprise_ids' = Loaded(<<>>)
            /\ hook' = HookAuthorized(hook, HookTeamCheck(hook, Loaded(<<>>), Loaded(<<>>)))
    /\ UNCHANGED <<mcp, auth, worker, config>>

\* security.py 24-32, 53-69, aibot_logic/main.py 135-152:
\* enterpriseIdsForSearch arrives (None is read as ""; an exception empties
\* both lists); is_team_authorized answers and dispatch awaits call_next
\* or rejects.
HookEnterpriseIdsReturn(outcome) ==
    /\ hook.pc = "await_enterprise_ids"
    /\ LET teams == IF outcome = "raises" THEN Loaded(<<>>) ELSE allowed_team_ids
           enterprises ==
               IF outcome = "value"
               THEN Loaded(SplitAndStrip(config.enterpriseIdsForSearch))
               ELSE Loaded(<<>>)
       IN /\ allowed_team_ids' = teams
          /\ allowed_enterprise_ids' = enterprises
          /\ hook' = HookAuthorized(hook, HookTeamCheck(hook, teams, enterprises))
    /\ UNCHANGED <<mcp, auth, worker, config>>

\* aibot_logic/main.py 393-396, 197-199: add_reaction's create_bot_client
\* returns, and reactions_add is called, or raises (logged).
HookBotClientReturns(raises) ==
    /\ hook.pc = "await_bot_client"
    /\ hook' = IF raises THEN [hook EXCEPT !.pc = "await_publish", !.reaction = "failed"]
               ELSE [hook EXCEPT !.pc = "await_reaction"]
    /\ UNCHANGED <<mcp, auth, worker, config, allowed_team_ids, allowed_enterprise_ids>>

\* aibot_logic/main.py 199, 393-412: reactions_add returns or raises (logged);
\* the event is handed to publish_to_topic.
HookReactionReturns(raises) ==
    /\ hook.pc = "await_reaction"
    /\ hook' = [hook EXCEPT !.pc = "await_publish",
                            !.reaction = IF raises THEN "failed" ELSE "added"]
    /\ UNCHANGED <<mcp, auth, worker, config, allowed_team_ids, allowed_enterprise_ids>>

\* aibot_logic/main.py 412-416: publish_to_topic returns or raises.
HookPublishReturns(publish_ok) ==
    /\ hook.pc = "await_publish"
    /\ hook' = IF publish_ok THEN HookReply([hook EXCEPT !.published = TRUE], 200, "OK")
               ELSE HookReply(hook, 500, "Error: ")
    /\ UNCHANGED <<mcp, auth, worker, config, allowed_team_ids, allowed_enterprise_ids>>

\* aibot_logic/main.py 419-433: get_google_token raises, finds a refresh
\* token ("value") or none.
HookGoogleTokenReturns(outcome) ==
    /\ hook.pc = "await_google_token"
    /\ hook' = IF outcome = "raises" THEN HookRaise(hook)
               ELSE IF outcome = "value" THEN HookReply(hook, 200, "Already Authenticated")
               ELSE [hook EXCEPT !.pc = "await_custom_fqdn"]
    /\ UNCHANGED <<mcp, auth, worker, config, allowed_team_ids, allowed_enterprise_ids>>

\* aibot_logic/main.py 433-440: customFqdn arrives.
HookCustomFqdnReturns(outcome) ==
    /\ hook.pc = "await_custom_fqdn"
    /\ hook' = IF outcome = "raises" THEN HookRaise(hook)
               ELSE IF outcome = "none"
               THEN HookReply(hook, 500, "Error: customFqdn not configured")
               ELSE [hook EXCEPT !.pc = "await_login_client_id"]
    /\ UNCHANGED <<mcp, auth, worker, config, allowed_team_ids, allowed_enterprise_ids>>

\* aibot_logic/main.py 440-442: iapClientId arrives; redirect to Google.
HookLoginClientIdReturns(outcome) ==
    /\ hook.pc = "await_login_client_id"
    /\ hook' = IF outcome = "raises" THEN HookRaise(hook)
               ELSE HookReply(hook, 307, "redirect")
    /\ UNCHANGED <<mcp, auth, worker, config, allowed_team_ids, allowed_enterprise_ids>>

\* The response is sent; the next request can arrive.
HookFinish ==
    /\ hook.pc = "done"
    /\ hook' = IdleHook
    /\ UNCHANGED <<mcp, auth, worker, config, allowed_team_ids, allowed_enterprise_ids>>

\* ------------------------------------------------------------ allow-lists
\* shared.security._get_whitelists and is_team_authorized (security.py
\* 10-69) as the tasks of one process call them.  One action per resumption
\* of a call; the module globals are allowed_team_ids and
\* allowed_enterprise_ids, NotLoaded standing for None.
AuthTasks == {1, 2}
SerialAuthTasks == {1}

\* What is_team_authorized is asked about.
AuthTeamIds == {"T1", "T_BAD", ""}
AuthEnterpriseIds == {"E1", "E_BAD", ""}

\* `history` fields: fetched counts the secrets this call asked for, late
\* says that the call began after a call of _get_whitelists had completed,
\* seen_enterprises that the enterprise list was assigned when the call
\* evaluated the lists.
AuthIdle ==
    [pc |-> "idle", team_id |-> "", enterprise_id |-> "", fetched |-> 0,
     late |-> FALSE, seen_enterprises |-> FALSE, result |-> "none"]

\* first: how the first completed call of _get_whitelists ended.
IdleAuth == [task |-> [t \in AuthTasks |-> AuthIdle], fetches |-> 0, first |-> "none"]

\* _get_whitelists returns the globals as they are now (security.py 32) and
\* is_team_authorized evaluates them; `how` says how the call of
\* _get_whitelists ended: it "loaded" the lists, it "failed" to, or it
\* "found" the team list set.
AuthReturn(a, t, teams, enterprises, how) ==
    LET result == TeamCheck(a.task[t].team_id, a.task[t].enterprise_id, teams, enterprises)
    IN [a EXCEPT !.task[t].pc = IF result = "TypeError" THEN "raised" ELSE "returned",
                 !.task[t].result = result,
                 !.task[t].seen_enterprises = enterprises.loaded,
                 !.first = IF @ = "none" THEN how ELSE @]

\* security.py 53, 15-19: a task calls is_team_authorized; the lists are
\* returned at once when the team list is set, otherwise the first secret
\* is asked for.
AuthCall(t, team_id, enterprise_id) ==
    /\ auth.task[t].pc = "idle"
    /\ LET a == [auth EXCEPT !.task[t] = [AuthIdle EXCEPT !.team_id = team_id,
                                                         !.enterprise_id = enterprise_id,
                                                         !.late = auth.first # "none"]]
       IN IF ListsUnset(allowed_team_ids)
          THEN auth' = [a EXCEPT !.task[t].pc = "await_team_ids",
                                 !.task[t].fetched = 1,
                                 !.fetches = @ + 1]
          ELSE auth' = AuthReturn(a, t, allowed_team_ids, allowed_enterprise_ids, "found")
    /\ UNCHANGED <<mcp, hook, worker, config, allowed_team_ids, allowed_enterprise_ids>>

\* security.py 19-24, 28-32: teamIdsForSearch arrives (None fails at
\* .split and is caught like an exception of the fetch).
TeamIdsReturn(t, outcome) ==
    /\ auth.task[t].pc = "await_team_ids"
    /\ IF outcome = "value"
       THEN /\ allowed_team_ids' = Loaded(SplitAndStrip(config.teamIdsForSearch))
            /\ auth' = [auth EXCEPT !.task[t].pc = "await_enterprise_ids",
                                    !.task[t].fetched = 2,
                                    !.fetches = @ + 1]
            /\ UNCHANGED allowed_enterprise_ids
       ELSE /\ allowed_team_ids' = Loaded(<<>>)
            /\ allowed_enterprise_ids' = Loaded(<<>>)
            /\ auth' = AuthReturn(auth, t, Loaded(<<>>), Loaded(<<>>), "failed")
    /\ UNCHANGED <<mcp, hook, worker, config>>

\* security.py 24-32: enterpriseIdsForSearch arrives (None is read as "").
EnterpriseIdsReturn(t, outcome) ==
    /\ auth.task[t].pc = "await_enterprise_ids"
    /\ LET teams == IF outcome = "raises" THEN Loaded(<<>>) ELSE allowed_team_ids
           enterprises ==
               CASE outcome = "raises" -> Loaded(<<>>)
                 [] outcome = "none" -> Loaded(<<>>)
                 [] OTHER -> Loaded(SplitAndStrip(config.enterpriseIdsForSearch))
       IN /\ allowed_team_ids' = teams
          /\ allowed_enterprise_ids' = enterprises
          /\ auth' = AuthReturn(auth, t, teams, enterprises,
                                IF outcome = "raises" THEN "failed" ELSE "loaded")
    /\ UNCHANGED <<mcp, hook, worker, config>>

\* The caller has the answer (or the exception): the task ends.
AuthFinish(t) ==
    /\ auth.task[t].pc \in {"returned", "raised"}
    /\ auth' = [auth EXCEPT !.task[t] = AuthIdle]
    /\ UNCHANGED <<mcp, hook, worker, config, allowed_team_ids, allowed_enterprise_ids>>

\* ------------------------------------------------------------ pub/sub worker
\* services/aibot_logic/main.py 526-735 (pubsub_worker) and 325-363
\* (keep_alive_status_updates).  One action per resumption of the handler
\* or of the keep-alive task it creates with asyncio.create_task.

\* The status messages the keep-alive task may post before the model stops
\* counting further ones.
MaxPosts == 2

\* An event: its kind (type, with the channel_type of a message), whether
\* it names a user, carries bot_id and text, and its subtype ("" for none).
WorkerEvent(kind, user, bot, text, subtype) ==
    [kind |-> kind, user |-> user, bot |-> bot, text |-> text, subtype |-> subtype]

\* What the envelope carries: no message; an event of another type; an
\* app_home_opened; an app_mention (of a user, without user, of a bot,
\* without text, with subtype bot_message); a direct message (plain, with
\* bot_id, edited); a channel message.
WorkerEvents ==
    {WorkerEvent("no_message", "", FALSE, FALSE, ""),
     WorkerEvent("url_verification", "", FALSE, FALSE, ""),
     WorkerEvent("app_home_opened", "U1", FALSE, FALSE, ""),
     WorkerEvent("app_mention", "U1", FALSE, TRUE, ""),
     WorkerEvent("app_mention", "", FALSE, TRUE, ""),
     WorkerEvent("app_mention", "U1", TRUE, TRUE, ""),
     WorkerEvent("app_mention", "U1", FALSE, FALSE, ""),
     WorkerEvent("app_mention", "U1", FALSE, TRUE, "bot_message"),
     WorkerEvent("im", "U1", FALSE, TRUE, ""),
     WorkerEvent("im", "U1", TRUE, TRUE, ""),
     WorkerEvent("im", "U1", FALSE, TRUE, "message_changed"),
     WorkerEvent("channel_message", "U1", FALSE, TRUE, "")}

\* main.py 550-566: should_handle.
should_handle(event) ==
    \/ event.kind = "app_mention"
    \/ (event.kind = "im" /\ ~event.bot /\ event.subtype = "")

\* main.py 574: the check against bot loops.
IsBotMessage(event) == event.bot \/ event.subtype = "bot_message"

\* keep_alive: "none" (no task), "created" (not run yet), "sleeping",
\* "posting", "finished".  cancelled: cancel() was called on the task.
\* outcome: how the try statement of 591-728 was left.  `history` fields:
\* posts counts the status messages posted, cleanup says that the removal
\* of thinking_face was called, stale that a task of an earlier request is
\* still alive.
IdleWorker ==
    [pc |-> "idle", event |-> WorkerEvent("none", "", FALSE, FALSE, ""),
     keep_alive |-> "none", cancelled |-> FALSE, outcome |-> "none",
     posts |-> 0, cleanup |-> FALSE, stale |-> FALSE, response |-> 0]

\* cancel() without waiting for the task to end.
CancelOnly(w) ==
    [w EXCEPT !.pc = "cleanup", !.cleanup = TRUE,
              !.cancelled = (w.keep_alive # "none")]

\* main.py 716-722: `if keep_alive_task: keep_alive_task.cancel(); await
\* keep_alive_task`, then (724-728) the removal of thinking_face is called.
CancelAndJoin(w) ==
    IF w.keep_alive = "none" THEN [w EXCEPT !.pc = "cleanup", !.cleanup = TRUE]
    ELSE [w EXCEPT !.pc = "await_keep_alive", !.cancelled = TRUE]

\* The try statement is left with `outcome`: the finally clause starts.
Finally(w, outcome) == CancelAndJoin([w EXCEPT !.outcome = outcome])

\* main.py 708-714: an exception in the try body; the error is reported.
Except(w) == [w EXCEPT !.pc = "report"]

\* main.py 529-578: the envelope arrives and is dispatched up to the first
\* await (or to the response).
WorkerArrive(event) ==
    /\ worker.pc = "idle"
    /\ LET alive == worker.keep_alive \notin {"none", "finished"}
           w == [IdleWorker EXCEPT !.event = event,
                                   !.keep_alive = IF alive THEN worker.keep_alive ELSE "none",
                                   !.cancelled = alive /\ worker.cancelled,
                                   !.stale = alive]
       IN worker' =
            IF event.kind = "no_message" THEN [w EXCEPT !.pc = "done", !.response = 400]
            ELSE IF event.kind = "app_home_opened" THEN [w EXCEPT !.pc = "home"]
            ELSE IF ~should_handle(event) THEN [w EXCEPT !.pc = "done", !.response = 200]
            ELSE IF IsBotMessage(event) THEN [w EXCEPT !.pc = "done", !.response = 200]
            ELSE [w EXCEPT !.pc = "remove_eyes"]
    /\ UNCHANGED <<mcp, hook, auth, config, allowed_team_ids, allowed_enterprise_ids>>

\* main.py 731-732: handle_home_tab_event returns or raises.
HomeReturns(raises) ==
    /\ worker.pc = "home"
    /\ worker' = [worker EXCEPT !.pc = "done", !.response = IF raises THEN 500 ELSE 200]
    /\ UNCHANGED <<mcp, hook, auth, config, allowed_team_ids, allowed_enterprise_ids>>

\* main.py 579-589: the two reaction calls; their exceptions are swallowed.
ReactionReturns(raises) ==
    /\ worker.pc \in {"remove_eyes", "add_thinking"}
    /\ worker' = [worker EXCEPT !.pc = IF @ = "remove_eyes" THEN "add_thinking" ELSE "history"]
    /\ UNCHANGED <<mcp, hook, auth, config, allowed_team_ids, allowed_enterprise_ids>>

\* main.py 591-621: the history arrives; without a user id the apology is
\* posted, otherwise the agent is set up.
HistoryReturns(raises) ==
    /\ worker.pc = "history"
    /\ worker' = IF raises THEN Except(worker)
                 ELSE IF worker.event.user = "" THEN [worker EXCEPT !.pc = "apology"]
                 ELSE [worker EXCEPT !.pc = "setup"]
    /\ UNCHANGED <<mcp, hook, auth, config, allowed_team_ids, allowed_enterprise_ids>>

\* main.py 608-620: the apology is posted and the handler returns from
\* inside the try statement.
ApologyReturns(raises) ==
    /\ worker.pc = "apology"
    /\ worker' = IF raises THEN Except(worker) ELSE Finally(worker, "unidentified")
    /\ UNCHANGED <<mcp, hook, auth, config, allowed_team_ids, allowed_enterprise_ids>>

\* main.py 621-670: agent, session and runner are set up; then the
\* keep-alive task is created and auth_test is called.
SetupReturns(raises) ==
    /\ worker.pc = "setup"
    /\ worker' = IF raises THEN Except(worker)
                 ELSE [worker EXCEPT !.pc = "auth_test", !.keep_alive = "created"]
    /\ UNCHANGED <<mcp, hook, auth, config, allowed_team_ids, allowed_enterprise_ids>>

\* main.py 669-681: auth_test answers; text.replace fails on a missing
\* text; the agent run starts.
AuthTestReturns(raises) ==
    /\ worker.pc = "auth_test"
    /\ worker' = IF raises \/ ~worker.event.text THEN Except(worker)
                 ELSE [worker EXCEPT !.pc = "agent"]
    /\ UNCHANGED <<mcp, hook, auth, config, allowed_team_ids, allowed_enterprise_ids>>

\* main.py 681-706: the agent run, the posting of its answer and the
\* saving of the history, each of which returns or raises.
AgentStepReturns(raises) ==
    /\ worker.pc \in {"agent", "post", "save"}
    /\ worker' = IF raises THEN Except(worker)
                 ELSE IF worker.pc = "agent" THEN [worker EXCEPT !.pc = "post"]
                 ELSE IF worker.pc = "post" THEN [worker EXCEPT !.pc = "save"]
                 ELSE Finally(worker, "ok")
    /\ UNCHANGED <<mcp, hook, auth, config, allowed_team_ids, allowed_enterprise_ids>>

\* main.py 708-714: the error report is posted, or fails in its turn.
ReportReturns(raises) ==
    /\ worker.pc = "report"
    /\ worker' = Finally(worker, IF raises THEN "raised" ELSE "reported")
    /\ UNCHANGED <<mcp, hook, auth, config, allowed_team_ids, allowed_enterprise_ids>>

\* main.py 354-356: the task runs for the first time or its sleep ends.
KeepAliveWakes ==
    /\ worker.keep_alive \in {"created", "sleeping"}
    /\ ~worker.cancelled
    /\ worker.keep_alive = "sleeping" => worker.posts < MaxPosts
    /\ worker' = [worker EXCEPT !.keep_alive = IF @ = "created" THEN "sleeping" ELSE "posting"]
    /\ UNCHANGED <<mcp, hook, auth, config, allowed_team_ids, allowed_enterprise_ids>>

\* main.py 357-361: post_ephemeral returns or raises (the exception is
\* logged); the loop goes back to sleep.
KeepAlivePosted(raises) ==
    /\ worker.keep_alive = "posting"
    /\ ~worker.cancelled
    /\ worker' = [worker EXCEPT !.keep_alive = "sleeping", !.posts = @ + 1]
    /\ UNCHANGED <<mcp, hook, auth, config, allowed_team_ids, allowed_enterprise_ids>>

\* main.py 353-363: CancelledError is thrown into the task at its await (or
\* the task is cancelled before it ever ran); the task ends.
KeepAliveCancelled ==
    /\ worker.cancelled
    /\ worker.keep_alive \in {"created", "sleeping", "posting"}
    /\ worker' = [worker EXCEPT !.keep_alive = "finished"]
    /\ UNCHANGED <<mcp, hook, auth, config, allowed_team_ids, allowed_enterprise_ids>>

\* main.py 719-728: `await keep_alive_task` completes; the removal of
\* thinking_face is called.
WorkerJoin ==
    /\ worker.pc = "await_keep_alive"
    /\ worker.keep_alive = "finished"
    /\ worker' = [worker EXCEPT !.pc = "cleanup", !.cleanup = TRUE]
    /\ UNCHANGED <<mcp, hook, auth, config, allowed_team_ids, allowed_enterprise_ids>>

\* main.py 724-734, 175-191: the removal returns or raises (swallowed); the
\* handler returns its response, or the exception of the error report
\* leaves it and the exception handler answers 500.
CleanupReturns(raises) ==
    /\ worker.pc = "cleanup"
    /\ worker' = [worker EXCEPT !.pc = "done",
                                !.response = IF worker.outcome = "raised" THEN 500 ELSE 200]
    /\ UNCHANGED <<mcp, hook, auth, config, allowed_team_ids, allowed_enterprise_ids>>

\* The response is sent: the request is over.  The record of the request
\* is kept until the next one arrives; a task that has not ended lives on.
WorkerFinish ==
    /\ worker.pc = "done"
    /\ worker' = [worker EXCEPT !.pc = "idle"]
    /\ UNCHANGED <<mcp, hook, auth, config, allowed_team_ids, allowed_enterprise_ids>>

\* ------------------------------------------------------------ specification
Init ==
    /\ clock = 0
    /\ log \in {BackgroundLog(k) : k \in BackgroundCounts}
    /\ granted = log
    /\ config \in Configs
    /\ allowed_team_ids = NotLoaded
    /\ allowed_enterprise_ids = NotLoaded
    /\ pc = [r \in Slots |-> "idle"]
    /\ scope = [r \in Slots |-> NoScope]
    /\ received = [r \in Slots |-> <<>>]
    /\ loc = [r \in Slots |-> InitLoc]
    /\ calls = [r \in Slots |-> <<>>]
    /\ responses = [r \in Slots |-> <<>>]
    /\ app_scope = [r \in Slots |-> <<>>]
    /\ user_id_ctx = [r \in Slots |-> Unbound]
    /\ team_id_ctx = [r \in Slots |-> Unbound]
    /\ cache = EmptyCache
    /\ tool = IdleTool
    /\ hook = IdleHook
    /\ auth = IdleAuth
    /\ worker = IdleWorker

Step(r) ==
    \/ Start(r)
    \/ IapAudienceReturns(r)
    \/ ClientIdReturns(r)
    \/ LogSetReturns(r)
    \/ LogQueryReturns(r)
    \/ BotTokenReturns(r)
    \/ SlackLookupReturns(r)
    \/ AuthorizedReturns(r)
    \/ AppReads(r)
    \/ AppReturns(r)
    \/ AppRaises(r)
    \/ PassthroughReturns(r)
    \/ Finish(r)

\* The gateway under every kind of request, one request at a time, at one
\* instant.
Next ==
    \/ \E r \in SerialSlots : \E s \in HttpScopes \cup OtherScopes : Arrive(r, s)
    \/ \E r \in SerialSlots : Step(r)

Spec == Init /\ [][Next]_vars

\* The rate limiter over time: impersonation requests and direct requests.
RateScopes ==
    {HttpScope("/mcp/sse",
        IapHeader(Token(TRUE, IapAudience, LogicEmail))
                  \o UserTokenHeader(Token(TRUE, IapClientId, e)), TRUE) :
        e \in {Alice, Bob}}
    \cup {HttpScope("/mcp/sse",
        IapHeader(Token(TRUE, IapAudience, Alice)), TRUE)}
    \cup OtherScopes

NextRate ==
    \/ \E r \in SerialSlots : \E s \in RateScopes : Arrive(r, s)
    \/ \E r \in SerialSlots : Step(r)
    \/ Tick

SpecRate == Init /\ [][NextRate]_vars

\* Two requests in flight at once, interleaved at every await: the logic
\* server acting for one user, another user calling directly, and the
\* server's lifespan scope.
ConcScopes ==
    {HttpScope("/mcp/messages/",
        IapHeader(Token(TRUE, IapAudience, LogicEmail))
                  \o UserTokenHeader(Token(TRUE, IapClientId, Alice)), TRUE),
     HttpScope("/mcp/messages/",
        IapHeader(Token(TRUE, IapAudience, Bob)), TRUE)}
    \cup OtherScopes

NextConc ==
    \/ \E r \in Slots : \E s \in ConcScopes : Arrive(r, s)
    \/ \E r \in Slots : Step(r)

SpecConc == Init /\ [][NextConc]_vars

\* Two impersonation checks in flight at once, interleaved at every await,
\* over time: the logic server acting for one user in one task and for
\* another user in the other, and the lifespan scope.
RaceUser(r) == IF r = 1 THEN Alice ELSE Bob

RaceScopes(r) ==
    {HttpScope("/mcp/sse",
        IapHeader(Token(TRUE, IapAudience, LogicEmail))
                  \o UserTokenHeader(Token(TRUE, IapClientId, RaceUser(r))), TRUE)}
    \cup (IF r = 1 THEN OtherScopes ELSE {})

NextRace ==
    \/ \E r \in Slots : \E s \in RaceScopes(r) : Arrive(r, s)
    \/ \E r \in Slots : Step(r)
    \/ Tick

\* The window one identity short of the limit when the two checks start.
InitRace ==
    /\ Init
    /\ log = BackgroundLog(MAX_UNIQUE_IMPERSONATIONS - 1)
    /\ config \in FullConfigs
    /\ config.iapDomain = "@example.com"

SpecRace == InitRace /\ [][NextRace]_vars

\* The gateway at rest, the cache empty, no call and no webhook request in
\* progress.
InitSearch ==
    /\ clock = 0
    /\ log = BackgroundLog(0)
    /\ granted = log
    /\ config \in FullConfigs
    /\ allowed_team_ids = NotLoaded
    /\ allowed_enterprise_ids = NotLoaded
    /\ pc = [r \in Slots |-> "idle"]
    /\ scope = [r \in Slots |-> NoScope]
    /\ received = [r \in Slots |-> <<>>]
    /\ loc = [r \in Slots |-> InitLoc]
    /\ calls = [r \in Slots |-> <<>>]
    /\ responses = [r \in Slots |-> <<>>]
    /\ app_scope = [r \in Slots |-> <<>>]
    /\ user_id_ctx = [r \in Slots |-> Unbound]
    /\ team_id_ctx = [r \in Slots |-> Unbound]
    /\ cache = EmptyCache
    /\ tool = IdleTool
    /\ hook = IdleHook
    /\ auth = IdleAuth
    /\ worker = IdleWorker

\* The same with one secret store: the search tool reads none of its keys.
InitTool ==
    /\ InitSearch
    /\ config.iapDomain = "@example.com"

\* The search tool called again and again by one caller, at one instant,
\* every upstream call answering.
NextSearch ==
    \/ \E id \in Identities : Invoke(id)
    \/ \E token \in SecretResponses : SecretReturns(token)
    \/ \E raises \in BOOLEAN : ClientReturns(raises)
    \/ \E raises \in BOOLEAN : EmbeddingsReturn(raises)
    \/ \E raises \in BOOLEAN : \E rows \in RowLists : VectorSearchReturns(raises, rows)
    \/ \E c \in Channels : \E info \in InfoResponses : InfoReturns(c, info)
    \/ \E team_resp \in TeamResponses : TeamInfoReturns(team_resp)
    \/ \E i \in DOMAIN tool.threads :
           \E resp \in RepliesResponses(tool.filtered_results[i]) : RepliesReturn(i, resp)
    \/ \E u \in Users : \E u_resp \in UsersInfoResponses : UsersInfoReturns(u, u_resp)
    \/ StartCheck
    \/ JoinChecks
    \/ StartThread
    \/ JoinThreads
    \/ StartName
    \/ JoinNames
    \/ ToolFinish

SpecSearch == InitTool /\ [][NextSearch]_vars

\* The cache over time: the same caller searches again at later instants;
\* a channel lookup raises or answers, every other upstream call succeeds.
CacheInfoResponses == {InfoRaises, InfoOk(FALSE, FALSE, "general"), InfoOk(TRUE, FALSE, "general")}

NextCache ==
    \/ Invoke(Identity("U1", "T1"))
    \/ SecretReturns("xoxp-token")
    \/ ClientReturns(FALSE)
    \/ EmbeddingsReturn(FALSE)
    \/ VectorSearchReturns(FALSE, SomeRows)
    \/ \E c \in Channels : \E info \in CacheInfoResponses : InfoReturns(c, info)
    \/ TeamInfoReturns(TeamOk("acme", "T_WS"))
    \/ \E i \in DOMAIN tool.threads :
           RepliesReturn(i, RepliesOk(<<Message(tool.filtered_results[i].ts,
                                                AuthorOf(tool.filtered_results[i]), "hello")>>))
    \/ \E u \in Users : UsersInfoReturns(u, UsersInfoOk("Real Name", "handle"))
    \/ StartCheck
    \/ JoinChecks
    \/ StartThread
    \/ JoinThreads
    \/ StartName
    \/ JoinNames
    \/ ToolFinish
    \/ SearchTick

SpecCache == InitTool /\ [][NextCache]_vars

\* The fan-outs with upstream calls that may never answer; every step that
\* can be taken is eventually taken (the event loop runs every task that is
\* ready, and an answer that arrives resumes its task).
NextHang ==
    \/ Invoke(Identity("U1", "T1"))
    \/ SecretReturns("xoxp-token")
    \/ ClientReturns(FALSE)
    \/ EmbeddingsReturn(FALSE)
    \/ VectorSearchReturns(FALSE, SomeRows)
    \/ \E c \in Channels : \E info \in CacheInfoResponses : InfoReturns(c, info)
    \/ \E c \in Channels : InfoHangs(c)
    \/ TeamInfoReturns(TeamOk("acme", "T_WS"))
    \/ \E i \in DOMAIN tool.threads :
           \E resp \in RepliesResponses(tool.filtered_results[i]) : RepliesReturn(i, resp)
    \/ \E i \in DOMAIN tool.threads : RepliesHang(i)
    \/ \E u \in Users : \E u_resp \in UsersInfoResponses : UsersInfoReturns(u, u_resp)
    \/ \E u \in Users : UsersInfoHangs(u)
    \/ StartCheck
    \/ JoinChecks
    \/ StartThread
    \/ JoinThreads
    \/ StartName
    \/ JoinNames
    \/ ToolFinish

SpecHang == InitTool /\ [][NextHang]_vars /\ WF_vars(NextHang)

\* The webhook service under every request of the model, one at a time.
NextHook ==
    \/ \E req \in HookRequests : HookArrive(req)
    \/ HookRouteStarts
    \/ HookJsonReturns
    \/ HookBodyReturns
    \/ \E raises \in BOOLEAN : HookVerifyReturns(raises)
    \/ \E outcome \in SecretOutcomes : HookTeamIdsReturn(outcome)
    \/ \E outcome \in SecretOutcomes : HookEnterpriseIdsReturn(outcome)
    \/ \E raises \in BOOLEAN : HookBotClientReturns(raises)
    \/ \E raises \in BOOLEAN : HookReactionReturns(raises)
    \/ \E publish_ok \in BOOLEAN : HookPublishReturns(publish_ok)
    \/ \E outcome \in SecretOutcomes : HookGoogleTokenReturns(outcome)
    \/ \E outcome \in SecretOutcomes : HookCustomFqdnReturns(outcome)
    \/ \E outcome \in SecretOutcomes : HookLoginClientIdReturns(outcome)
    \/ HookFinish

SpecHook == InitSearch /\ [][NextHook]_vars

\* The allow-lists of one process, one call of is_team_authorized at a time.
NextLoad ==
    \/ \E t \in SerialAuthTasks : \E team_id \in AuthTeamIds :
           \E enterprise_id \in AuthEnterpriseIds : AuthCall(t, team_id, enterprise_id)
    \/ \E t \in SerialAuthTasks : \E outcome \in SecretOutcomes : TeamIdsReturn(t, outcome)
    \/ \E t \in SerialAuthTasks : \E outcome \in SecretOutcomes : EnterpriseIdsReturn(t, outcome)
    \/ \E t \in SerialAuthTasks : AuthFinish(t)

SpecLoad == InitSearch /\ [][NextLoad]_vars

\* The same with two calls in flight at once, interleaved at every await.
NextLoadConc ==
    \/ \E t \in AuthTasks : \E team_id \in AuthTeamIds :
           \E enterprise_id \in AuthEnterpriseIds : AuthCall(t, team_id, enterprise_id)
    \/ \E t \in AuthTasks : \E outcome \in SecretOutcomes : TeamIdsReturn(t, outcome)
    \/ \E t \in AuthTasks : \E outcome \in SecretOutcomes : EnterpriseIdsReturn(t, outcome)
    \/ \E t \in AuthTasks : AuthFinish(t)

SpecLoadConc == InitSearch /\ [][NextLoadConc]_vars

\* The Pub/Sub worker handling one event after another, its keep-alive task
\* running beside it.
NextWorker ==
    \/ \E event \in WorkerEvents : WorkerArrive(event)
    \/ \E raises \in BOOLEAN : HomeReturns(raises)
    \/ \E raises \in BOOLEAN : ReactionReturns(raises)
    \/ \E raises \in BOOLEAN : HistoryReturns(raises)
    \/ \E raises \in BOOLEAN : ApologyReturns(raises)
    \/ \E raises \in BOOLEAN : SetupReturns(raises)
    \/ \E raises \in BOOLEAN : AuthTestReturns(raises)
    \/ \E raises \in BOOLEAN : AgentStepReturns(raises)
    \/ \E raises \in BOOLEAN : ReportReturns(raises)
    \/ KeepAliveWakes
    \/ \E raises \in BOOLEAN : KeepAlivePosted(raises)
    \/ KeepAliveCancelled
    \/ WorkerJoin
    \/ \E raises \in BOOLEAN : CleanupReturns(raises)
    \/ WorkerFinish

SpecWorker == InitSearch /\ [][NextWorker]_vars

\* ------------------------------------------------------------ claims
\* What a request carried and what was done for it.
Assertion(r) == HeadersGet(received[r], "X-Goog-IAP-JWT-Assertion")
\* The assertion passes the verification the gateway asks for: signature
\* and expiry are good and it was minted for the audience the secret store
\* names (any audience when the store names none).
AssertionGood(r) ==
    /\ ~Assertion(r).blank
    /\ Assertion(r).sig_ok
    /\ (config.iapAudience # NoAudience => Assertion(r).aud = config.iapAudience)
Principal(r) == Assertion(r).email
UserToken(r) == HeadersGet(received[r], "X-User-ID-Token")
UserTokenGood(r) ==
    /\ ~UserToken(r).blank
    /\ UserToken(r).sig_ok
    /\ (config.iapClientId # NoAudience => UserToken(r).aud = config.iapClientId)
    /\ UserToken(r).email # NoEmail
Called(r, c) == \E i \in 1..Len(calls[r]) : calls[r][i] = c
CalledOp(r, op) == \E i \in 1..Len(calls[r]) : calls[r][i].op = op
IsHttp(r) == scope[r].type = "http"
HasUserTokenEntry(hs) ==
    \E i \in 1..Len(hs) : hs[i][1] \in {"x-user-id-token", "X-User-ID-Token", "X-USER-ID-TOKEN"}
WithoutUserToken(hs) ==
    SelectSeq(hs, LAMBDA h : h[1] \notin {"x-user-id-token", "X-User-ID-Token", "X-USER-ID-TOKEN"})
WindowEmails(now) ==
    {d.user_email : d \in {e \in log : e.timestamp >= now - IMPERSONATION_WINDOW_SECONDS}}

IsPrefix(p, q) == Len(p) <= Len(q) /\ SubSeq(q, 1, Len(p)) = p

RECURSIVE UpToSend(_)
UpToSend(cs) ==
    IF cs = <<>> \/ Head(cs).op = "send" THEN <<>> ELSE <<Head(cs)>> \o UpToSend(Tail(cs))

ChainHead ==
    <<Call("headers.get", "X-Goog-IAP-JWT-Assertion"), Call("get_secret_value", "iapAudience"),
      Call("verify_iap_jwt", config.iapAudience)>>
ChainImpersonation ==
    <<Call("headers.get", "X-User-ID-Token"), Call("get_secret_value", "iapClientId"),
      Call("verify_oauth2_token", config.iapClientId), Call("log.set", ""), Call("log.query", "")>>
ChainTail ==
    <<Call("get_secret_value", "slackBotToken"), Call("users_lookupByEmail", ""),
      Call("is_user_authorized", ""), Call("app", "")>>
\* The caller is an intermediary: the logic server or the client accessor,
\* which act for an end user.
Intermediary(r) ==
    \/ IsSubstring(<<"aibot-logic">>, Principal(r))
    \/ IsSubstring(<<"mcp-client-accessor">>, Principal(r))
Chain(r) ==
    IF Intermediary(r) THEN ChainHead \o ChainImpersonation \o ChainTail
    ELSE ChainHead \o ChainTail

\* C1: for an HTTP request the gateway makes its calls in the order of the
\* chain (allow-list, assertion, e-mail, for an intermediary caller user
\* token and rate check, directory, authorization, handler); each step is
\* started only when every earlier check succeeded, the handler only when
\* all did; and a rejection is the last thing the gateway does for the
\* request.
C1_ChainGatesDispatch ==
    \A r \in Slots :
        (IsHttp(r) /\ ~(scope[r].path \in {"/health", "/healthz"})) =>
            /\ IsPrefix(UpToSend(calls[r]), Chain(r))
            /\ UpToSend(calls[r]) # <<>> => scope[r].path \in {"/mcp/sse", "/mcp/messages", "/mcp/messages/"}
            /\ Called(r, Call("get_secret_value", "iapAudience")) => ~Assertion(r).blank
            /\ (CalledOp(r, "users_lookupByEmail") \/ CalledOp(r, "verify_oauth2_token")
                \/ Called(r, Call("get_secret_value", "slackBotToken")))
                 => (AssertionGood(r) /\ Principal(r) # NoEmail)
            /\ Called(r, Call("get_secret_value", "iapClientId")) => ~UserToken(r).blank
            /\ CalledOp(r, "log.set") => UserTokenGood(r)
            /\ (Called(r, Call("get_secret_value", "slackBotToken")) /\ Intermediary(r))
                 => (UserTokenGood(r) /\ Cardinality(WindowEmails(loc[r].now)) <= MAX_UNIQUE_IMPERSONATIONS
                     /\ UserToken(r).email \in WindowEmails(loc[r].now))
            /\ CalledOp(r, "is_user_authorized")
                 => (loc[r].slack_user_resp.ok /\ ~loc[r].slack_user_resp.raises)
            /\ CalledOp(r, "app") => (loc[r].authorized /\ app_scope[r] # <<>>)
            /\ (pc[r] = "done" /\ ~CalledOp(r, "app"))
                 => (Len(responses[r]) = 1 /\ responses[r][1].status \in {401, 403, 429, 500}
                     /\ calls[r][Len(calls[r])].op = "send")
            /\ (pc[r] # "done" /\ pc[r] # "idle") => responses[r] = <<>>

\* C2 (as claimed): a request whose path is neither a health path nor on the allow-list
\* is answered 403 "Forbidden" whatever credentials it carries, and the
\* gateway reads no header, fetches no secret and verifies nothing for it.
C2_UnlistedPathForbidden ==
    \A r \in Slots :
        (/\ IsHttp(r)
         /\ scope[r].path \notin {"/health", "/healthz", "/mcp/sse", "/mcp/messages",
                                  "/mcp/messages/"}
         /\ pc[r] # "start")
        => /\ pc[r] = "done"
           /\ responses[r] = <<Response(403, "Forbidden")>>
           /\ calls[r] = <<Call("send", "Forbidden")>>
           /\ app_scope[r] = <<>>

\* C3 (as claimed): every verification of a user token for a caller matching the logic
\* pattern is made against the configured client id, every logic caller that
\* gets past identity resolution had its token so verified, and a
\* verification without audience is made only for the accessor pattern.
C3_AudiencePolicy ==
    \A r \in Slots :
        /\ \A i \in 1..Len(calls[r]) :
              calls[r][i].op = "verify_oauth2_token" =>
                  /\ IsSubstring(<<"aibot-logic">>, Principal(r)) => calls[r][i].arg = "iap-client-id"
                  /\ calls[r][i].arg = "<none>" =>
                        /\ IsSubstring(<<"mcp-client-accessor">>, Principal(r))
                        /\ ~IsSubstring(<<"aibot-logic">>, Principal(r))
        /\ (IsHttp(r) /\ IsSubstring(<<"aibot-logic">>, Principal(r))
            /\ Called(r, Call("get_secret_value", "slackBotToken")))
             => /\ Called(r, Call("verify_oauth2_token", "iap-client-id"))
                /\ UserToken(r).sig_ok
                /\ UserToken(r).aud = IapClientId

\* A verified accessor caller that sent no X-User-ID-Token header.
AccessorWithoutToken(r) ==
    /\ IsHttp(r)
    /\ scope[r].path \in {"/mcp/sse", "/mcp/messages", "/mcp/messages/"}
    /\ AssertionGood(r)
    /\ Principal(r) = AccessorEmail
    /\ ~HasUserTokenEntry(received[r])

\* C4 (as claimed): a verified accessor caller without X-User-ID-Token is
\* never dispatched, and unless a collaborator raised (500) the answer it
\* gets is 401.
C4_AccessorNeedsToken ==
    \A r \in Slots :
        AccessorWithoutToken(r) =>
            /\ ~CalledOp(r, "app")
            /\ (pc[r] = "done" /\ responses[r][1].status # 500) =>
                  (Len(responses[r]) = 1 /\ responses[r][1].status = 401)

\* C5: a verified logic caller without X-User-ID-Token is answered 401
\* before any rate-limit entry is written and before any directory lookup.
C5_LogicNeedsToken ==
    \A r \in Slots :
        (/\ IsHttp(r)
         /\ AssertionGood(r)
         /\ Principal(r) = LogicEmail
         /\ UserToken(r).blank
         /\ CalledOp(r, "verify_iap_jwt"))
        => /\ pc[r] = "done"
           /\ responses[r] = <<Response(401, "X-User-ID-Token required for Logic Server")>>
           /\ ~CalledOp(r, "log.set")
           /\ ~CalledOp(r, "log.query")
           /\ ~CalledOp(r, "users_lookupByEmail")
           /\ ~CalledOp(r, "app")

\* C5 witness: the logic server called with no user token at all and got 401.
C5_Witness ==
    \E r \in Slots :
        /\ pc[r] = "done"
        /\ AssertionGood(r)
        /\ Principal(r) = LogicEmail
        /\ ~HasUserTokenEntry(received[r])
        /\ responses[r] = <<Response(401, "X-User-ID-Token required for Logic Server")>>

\* The request in slot r has had its window counted: the query returned.
Counted(r) ==
    /\ CalledOp(r, "log.query")
    /\ pc[r] # "await_log_query"
    /\ ~(pc[r] = "done" /\ responses[r] = <<Response(403, "Invalid User ID Token")>>)

\* C6: with the window of 60 s and the limit of 20, an impersonation request
\* is allowed whenever the entries of the last 60 s, its own included, name
\* at most 20 distinct identities, and a request that makes them 21 is
\* answered 429 "Impersonation rate limit exceeded" and is not dispatched.
C6_WindowLimit ==
    \A r \in Slots :
        Counted(r) =>
            /\ loc[r].final_user_email \in WindowEmails(loc[r].now)
            /\ Cardinality(WindowEmails(loc[r].now)) <= MAX_UNIQUE_IMPERSONATIONS =>
                  /\ Called(r, Call("get_secret_value", "slackBotToken"))
                  /\ \A i \in 1..Len(responses[r]) : responses[r][i].status # 429
            /\ Cardinality(WindowEmails(loc[r].now)) > MAX_UNIQUE_IMPERSONATIONS =>
                  /\ pc[r] = "done"
                  /\ responses[r] = <<Response(429, "Impersonation rate limit exceeded")>>
                  /\ ~CalledOp(r, "app")
                  /\ ~CalledOp(r, "users_lookupByEmail")

\* C6 witness: the 21st distinct identity of a window was refused after a
\* request for the 20th had been let through in the same window.
C6_Witness ==
    \E r \in Slots :
        /\ pc[r] = "done"
        /\ responses[r] = <<Response(429, "Impersonation rate limit exceeded")>>
        /\ Cardinality(WindowEmails(loc[r].now)) = MAX_UNIQUE_IMPERSONATIONS + 1
        /\ \E d \in log : d.user_email \in {Alice, Bob} /\ d.user_email # loc[r].final_user_email
                          /\ d.timestamp >= loc[r].now - IMPERSONATION_WINDOW_SECONDS

\* C7: the number compared with the limit is the number of distinct
\* identities among the entries in the window: a request for an identity
\* that already has an entry in the window counts as many identities as were
\* there before it.
C7_RepeatsCountOnce ==
    \A r \in Slots :
        Counted(r) =>
            LET own == loc[r].final_user_email
                inWindow == {d \in log : d.timestamp >= loc[r].now - IMPERSONATION_WINDOW_SECONDS}
                others == {d \in inWindow : d.timestamp # loc[r].now \/ d.user_email # own}
            IN  /\ Cardinality(loc[r].unique_users) = Cardinality({d.user_email : d \in inWindow})
                /\ (\E d \in others : d.user_email = own) =>
                      Cardinality(loc[r].unique_users)
                          = Cardinality({d.user_email : d \in others})

\* C7 witness: a second request for an identity already in the window was
\* let through with exactly 20 distinct identities in the window.
C7_Witness ==
    \E r \in Slots :
        /\ Counted(r)
        /\ pc[r] = "await_bot_token"
        /\ Cardinality(loc[r].unique_users) = MAX_UNIQUE_IMPERSONATIONS
        /\ \E d \in log : /\ d.user_email = loc[r].final_user_email
                          /\ d.timestamp # loc[r].now
                          /\ d.timestamp >= loc[r].now - IMPERSONATION_WINDOW_SECONDS

\* C8: for a verified caller that matches no intermediary pattern the
\* gateway asks for no user token, takes the caller's own e-mail as the
\* final identity and never enters the rate limiter: no log write, no window
\* query; the request goes straight on to the directory lookup.
C8_DirectUserNotRateLimited ==
    \A r \in Slots :
        (/\ IsHttp(r)
         /\ AssertionGood(r)
         /\ Principal(r) # NoEmail
         /\ ~IsSubstring(<<"aibot-logic">>, Principal(r))
         /\ ~IsSubstring(<<"mcp-client-accessor">>, Principal(r))
         /\ CalledOp(r, "verify_iap_jwt"))
        => /\ ~Called(r, Call("headers.get", "X-User-ID-Token"))
           /\ ~CalledOp(r, "verify_oauth2_token")
           /\ ~CalledOp(r, "log.set")
           /\ ~CalledOp(r, "log.query")
           /\ loc[r].final_user_email = Principal(r)
           /\ Called(r, Call("get_secret_value", "slackBotToken"))
           /\ \A i \in 1..Len(responses[r]) : responses[r][i].status \notin {401, 429}

\* C8 witness: an end user without user token was dispatched.
C8_Witness ==
    \E r \in Slots :
        /\ pc[r] = "in_app"
        /\ Principal(r) = Alice
        /\ ~HasUserTokenEntry(received[r])
        /\ calls[r] = ChainHead \o ChainTail

\* The handler has been called for the HTTP request in slot r.
Dispatched(r) == IsHttp(r) /\ CalledOp(r, "app")

\* C9 (as claimed): for a dispatched request of a caller pattern that uses
\* the on-behalf-of token (logic server or accessor) the handler's header
\* list has no X-User-ID-Token entry in any letter case and is otherwise the
\* list that arrived.
C9_IntermediaryTokenScrubbed ==
    \A r \in Slots :
        (/\ Dispatched(r)
         /\ \/ IsSubstring(<<"aibot-logic">>, Principal(r))
            \/ IsSubstring(<<"mcp-client-accessor">>, Principal(r)))
        => /\ ~HasUserTokenEntry(app_scope[r])
           /\ app_scope[r] = WithoutUserToken(received[r])

\* C10 (as claimed): also a direct end user's X-User-ID-Token header is
\* stripped before the request reaches the handler.
C10_DirectUserTokenScrubbed ==
    \A r \in Slots :
        (/\ Dispatched(r)
         /\ ~IsSubstring(<<"aibot-logic">>, Principal(r))
         /\ ~IsSubstring(<<"mcp-client-accessor">>, Principal(r)))
        => ~HasUserTokenEntry(app_scope[r])

\* C10 (amended): the X-User-ID-Token header is stripped, in every letter
\* case and leaving the other headers as they arrived, from every dispatched
\* request of a caller matching the logic-server pattern; a direct end
\* user's request reaches the handler with exactly the headers it arrived
\* with, an X-User-ID-Token header included.
C10_ScrubbedForLogicOnly ==
    \A r \in Slots :
        Dispatched(r) =>
            /\ IsSubstring(<<"aibot-logic">>, Principal(r)) =>
                  /\ ~HasUserTokenEntry(app_scope[r])
                  /\ app_scope[r] = WithoutUserToken(received[r])
            /\ (/\ ~IsSubstring(<<"aibot-logic">>, Principal(r))
                /\ ~IsSubstring(<<"mcp-client-accessor">>, Principal(r)))
                 => app_scope[r] = received[r]

\* C10 witness: an end user's request was dispatched with its
\* X-User-ID-Token header still in place.
C10_Witness ==
    \E r \in Slots :
        /\ pc[r] = "in_app"
        /\ Principal(r) = Alice
        /\ \E i \in 1..Len(app_scope[r]) : app_scope[r][i][1] = "x-user-id-token"

\* A request on an allow-listed path whose assertion header is present but
\* for which the verifier returned no claims.
InvalidAssertion(r) ==
    /\ IsHttp(r)
    /\ scope[r].path \in {"/mcp/sse", "/mcp/messages", "/mcp/messages/"}
    /\ ~Assertion(r).blank
    /\ ~AssertionGood(r)
    /\ CalledOp(r, "verify_iap_jwt")

\* C11 (as claimed): a request on an allow-listed path whose assertion is
\* present but fails verification is answered 401 and is never dispatched.
C11_InvalidAssertionUnauthenticated ==
    \A r \in Slots :
        InvalidAssertion(r) =>
            /\ ~CalledOp(r, "app")
            /\ pc[r] = "done"
            /\ Len(responses[r]) = 1
            /\ responses[r][1].status = 401

\* C11 (amended): such a request is answered 403 "Invalid IAP Assertion";
\* nothing is done for it after the verification and it is never dispatched.
C11_InvalidAssertionForbidden ==
    \A r \in Slots :
        InvalidAssertion(r) =>
            /\ pc[r] = "done"
            /\ responses[r] = <<Response(403, "Invalid IAP Assertion")>>
            /\ calls[r] = ChainHead \o <<Call("send", "Invalid IAP Assertion")>>
            /\ app_scope[r] = <<>>

\* C11 witness: an assertion minted for another audience was refused with 403.
C11_Witness ==
    \E r \in Slots :
        /\ pc[r] = "done"
        /\ Assertion(r).sig_ok
        /\ Assertion(r).aud = OtherAudience
        /\ responses[r] = <<Response(403, "Invalid IAP Assertion")>>

\* A request on an allow-listed path that carries no assertion header, once
\* the gateway has looked at it.
NoAssertionHeader(r) ==
    /\ IsHttp(r)
    /\ scope[r].path \in {"/mcp/sse", "/mcp/messages", "/mcp/messages/"}
    /\ \A i \in 1..Len(received[r]) : received[r][i][1] # "x-goog-iap-jwt-assertion"
    /\ pc[r] # "start"

\* C12: a request on an allow-listed path without assertion header is
\* answered 401 "Authentication required (IAP)"; the gateway reads that one
\* header and does nothing else: no secret fetch, no verification, no
\* rate-limit write, no directory lookup, no dispatch.
C12_MissingAssertionUnauthenticated ==
    \A r \in Slots :
        NoAssertionHeader(r) =>
            /\ pc[r] = "done"
            /\ responses[r] = <<Response(401, "Authentication required (IAP)")>>
            /\ calls[r] = <<Call("headers.get", "X-Goog-IAP-JWT-Assertion"),
                            Call("send", "Authentication required (IAP)")>>
            /\ app_scope[r] = <<>>

\* C12 witness: a request that carried a good user token but no assertion
\* was answered 401.
C12_Witness ==
    \E r \in Slots :
        /\ NoAssertionHeader(r)
        /\ \E i \in 1..Len(received[r]) : received[r][i][1] = "x-user-id-token"
        /\ responses[r] = <<Response(401, "Authentication required (IAP)")>>

\* A verified intermediary (logic server or accessor) sent an X-User-ID-Token
\* that fails verification under the policy of its pattern (signature and
\* expiry, and for the logic server the client id as audience), or that
\* verifies but carries no e-mail.
BadUserToken(r) ==
    /\ IsHttp(r)
    /\ scope[r].path \in {"/mcp/sse", "/mcp/messages", "/mcp/messages/"}
    /\ AssertionGood(r)
    /\ \/ IsSubstring(<<"aibot-logic">>, Principal(r))
       \/ IsSubstring(<<"mcp-client-accessor">>, Principal(r))
    /\ ~UserToken(r).blank
    /\ \/ ~UserToken(r).sig_ok
       \/ IsSubstring(<<"aibot-logic">>, Principal(r)) /\ UserToken(r).aud # IapClientId
       \/ UserToken(r).email = NoEmail

\* C13 (as claimed): an on-behalf-of token that is present but fails
\* verification, or verifies without e-mail claim, gets the request
\* rejected with 403: no rate-limit entry is appended for it and the handler
\* is not dispatched.
C13_BadUserTokenForbidden ==
    \A r \in Slots :
        BadUserToken(r) =>
            /\ ~CalledOp(r, "log.set")
            /\ ~CalledOp(r, "app")
            /\ (pc[r] = "done" /\ responses[r][1].status # 500) =>
                  (Len(responses[r]) = 1 /\ responses[r][1].status = 403)

\* C14: a verified assertion that carries no e-mail claim is answered 403
\* "Email missing from identity" right after the verification: the gateway
\* does not go on to identity resolution (no user token read, no token
\* verification, no rate check, no directory lookup, no dispatch).
C14_EmailMissingForbidden ==
    \A r \in Slots :
        (/\ IsHttp(r)
         /\ AssertionGood(r)
         /\ Principal(r) = NoEmail
         /\ CalledOp(r, "verify_iap_jwt"))
        => /\ pc[r] = "done"
           /\ responses[r] = <<Response(403, "Email missing from identity")>>
           /\ calls[r] = ChainHead \o <<Call("send", "Email missing from identity")>>
           /\ loc[r].final_user_email = NoEmail
           /\ app_scope[r] = <<>>

\* C14 witness: an assertion with good signature and audience but without
\* e-mail was refused.
C14_Witness ==
    \E r \in Slots :
        /\ pc[r] = "done"
        /\ AssertionGood(r)
        /\ Principal(r) = NoEmail
        /\ responses[r] = <<Response(403, "Email missing from identity")>>

\* The directory lookup of the request in slot r has come back.
LookupReturned(r) == IsHttp(r) /\ CalledOp(r, "users_lookupByEmail") /\ pc[r] # "await_slack"

\* C15: authorization fails closed.  A directory lookup that raises ends the
\* request with 500, one that answers not-ok (the user was not found) ends
\* it with 403 "User not recognized in Slack workspace"; in both cases
\* nothing else is done for the request, and every dispatched HTTP request
\* had a directory lookup that came back ok.
C15_LookupFailsClosed ==
    \A r \in Slots :
        /\ (LookupReturned(r) /\ loc[r].slack_user_resp.raises) =>
              /\ pc[r] = "done"
              /\ responses[r] = <<Response(500, "Security validation failed")>>
              /\ ~CalledOp(r, "is_user_authorized")
              /\ ~CalledOp(r, "app")
        /\ (LookupReturned(r) /\ ~loc[r].slack_user_resp.raises /\ ~loc[r].slack_user_resp.ok) =>
              /\ pc[r] = "done"
              /\ responses[r] = <<Response(403, "User not recognized in Slack workspace")>>
              /\ ~CalledOp(r, "is_user_authorized")
              /\ ~CalledOp(r, "app")
        /\ Dispatched(r) =>
              /\ LookupReturned(r)
              /\ loc[r].slack_user_resp.ok
              /\ ~loc[r].slack_user_resp.raises

\* C15 witness: the lookup for an end user with a good assertion answered
\* not-ok and the request was refused.
C15_Witness ==
    \E r \in Slots :
        /\ pc[r] = "done"
        /\ AssertionGood(r)
        /\ Principal(r) = Alice
        /\ LookupReturned(r)
        /\ loc[r].slack_user_resp = SlackNotOk
        /\ responses[r] = <<Response(403, "User not recognized in Slack workspace")>>

\* The authorization call of the request in slot r came back with an answer.
AuthorizationAnswered(r) ==
    /\ IsHttp(r)
    /\ CalledOp(r, "is_user_authorized")
    /\ pc[r] # "await_authorized"
    /\ ~(~CalledOp(r, "app") /\ responses[r] = <<Response(500, "Security validation failed")>>)

\* What the claim says of the team check, over the lists as loaded.
TeamAllowed(team_id, enterprise_id) ==
    /\ Len(allowed_team_ids.ids) > 0 \/ Len(allowed_enterprise_ids.ids) > 0
    /\ \/ \E i \in 1..Len(allowed_team_ids.ids) : allowed_team_ids.ids[i] = team_id
       \/ /\ enterprise_id # ""
          /\ \E i \in 1..Len(allowed_enterprise_ids.ids) :
                allowed_enterprise_ids.ids[i] = enterprise_id

\* C16: an HTTP request is dispatched only after the authorization check
\* answered true for the resolved identity's team and enterprise, and one for
\* which it answered false gets 403; the team check is true exactly when an
\* allow-list is non-empty and the team id is in the team allow-list or a
\* non-empty enterprise id is in the enterprise allow-list, so that with
\* both lists empty nothing is dispatched.
C16_AuthorizationGatesDispatch ==
    \A r \in Slots :
        /\ Dispatched(r) =>
              /\ AuthorizationAnswered(r)
              /\ loc[r].authorized
              /\ TeamAllowed(loc[r].team_id, loc[r].enterprise_id)
        /\ AuthorizationAnswered(r) =>
              /\ allowed_team_ids.loaded /\ allowed_enterprise_ids.loaded
              /\ loc[r].authorized <=> CalledOp(r, "app")
              /\ ~loc[r].authorized =>
                    /\ pc[r] = "done"
                    /\ responses[r] =
                         <<Response(403, "Unauthorized access (Email Domain or Slack Workspace)")>>
              /\ loc[r].final_user_email[Len(loc[r].final_user_email)] = config.iapDomain =>
                    (loc[r].authorized <=> TeamAllowed(loc[r].team_id, loc[r].enterprise_id))
        /\ \A t \in {"", "T1", "T2", "T9", "T_BAD"}, e \in {"", "E1", "E2"} :
              (allowed_team_ids.loaded /\ allowed_enterprise_ids.loaded) =>
                  (is_team_authorized(t, e, allowed_team_ids.ids, allowed_enterprise_ids.ids)
                      <=> TeamAllowed(t, e))

\* C16 witness: a user whose team is not allow-listed but whose enterprise
\* is was let through to the handler.
C16_Witness ==
    \E r \in Slots :
        /\ pc[r] = "in_app"
        /\ loc[r].authorized
        /\ loc[r].team_id = "T9"
        /\ loc[r].enterprise_id = "E1"
        /\ allowed_enterprise_ids.ids = <<"E1">>

\* C17: while the handler of a request runs, the user id and team id the
\* gateway resolved for the request are bound; at every other moment, so
\* before the dispatch and after the handler returned or raised, both are
\* unbound as they were before the request.
C17_IdentityBoundOnlyInHandler ==
    \A r \in Slots :
        /\ pc[r] = "in_app" =>
              /\ user_id_ctx[r] = loc[r].slack_user_id
              /\ team_id_ctx[r] = loc[r].team_id
              /\ loc[r].slack_user_id = loc[r].slack_user_resp.id
        /\ pc[r] # "in_app" =>
              /\ user_id_ctx[r] = "None"
              /\ team_id_ctx[r] = "None"

\* C17 witness: the handler of a dispatched request raised, and the
\* identity is unbound again.
C17_Witness ==
    \E r \in Slots :
        /\ pc[r] = "done"
        /\ Dispatched(r)
        /\ loc[r].slack_user_id = "U1"
        /\ responses[r] = <<Response(500, "Security validation failed")>>
        /\ user_id_ctx[r] = "None"
        /\ team_id_ctx[r] = "None"

\* C18: with two requests in flight, interleaved at every await of the
\* gateway and of the handler, the team id a request's handler reads is the
\* one the gateway resolved for that same request, whatever the gateway
\* resolved and bound for the other request meanwhile.
C18_HandlerReadsOwnIdentity ==
    \A r \in Slots :
        (IsHttp(r) /\ loc[r].handler_team_id # "unread") =>
            /\ Dispatched(r)
            /\ loc[r].handler_team_id = loc[r].team_id
            /\ loc[r].team_id = TeamIdOf(loc[r].slack_user_resp)

\* C18 witness: two requests for different identities are in their handlers
\* at once and both handlers have read the team id.
C18_Witness ==
    /\ pc[1] = "in_app"
    /\ pc[2] = "in_app"
    /\ loc[1].final_user_email = Alice
    /\ loc[2].final_user_email = Bob
    /\ loc[1].team_id = "T1"
    /\ loc[2].team_id = "T2"
    /\ loc[1].handler_team_id = "T1"
    /\ loc[2].handler_team_id = "T2"

\* C19 (as claimed): when a step of the verification chain (a secret fetch,
\* the directory lookup, the authorization) raises, the request ends with
\* the single response 500 "Security validation failed" and is not
\* dispatched.
C19_ChainExceptionIs500 ==
    \A r \in Slots :
        loc[r].raised \in {"get_secret_value iapAudience", "get_secret_value iapClientId",
                           "get_secret_value slackBotToken", "users_lookupByEmail",
                           "is_user_authorized"}
        => /\ pc[r] = "done"
           /\ responses[r] = <<Response(500, "Security validation failed")>>
           /\ ~CalledOp(r, "app")

\* C20: a request to /health or /healthz is answered 200 {"status":"ok"}
\* whatever headers it carries; the gateway reads no credential, fetches no
\* secret, writes no rate-limit entry, consults no directory and does not
\* call the handler: the response is the only thing it does.
C20_HealthBypassesChain ==
    \A r \in Slots :
        (IsHttp(r) /\ scope[r].path \in {"/health", "/healthz"} /\ pc[r] # "start") =>
            /\ pc[r] = "done"
            /\ responses[r] = <<Response(200, "status ok")>>
            /\ calls[r] = <<Call("send", "status ok")>>
            /\ loc[r] = InitLoc
            /\ scope[r].headers = received[r]
            /\ app_scope[r] = <<>>

\* C20 witness: /healthz answered 200 for a request with a forged assertion.
C20_Witness ==
    \E r \in Slots :
        /\ pc[r] = "done"
        /\ scope[r].path = "/healthz"
        /\ ~Assertion(r).blank
        /\ ~Assertion(r).sig_ok
        /\ responses[r] = <<Response(200, "status ok")>>

\* ------------------------------------------------------------ search claims
\* The messages of the output the call returned (none while it runs or when
\* it returned a text).
Output == IF tool.pc = "returned" /\ tool.result.kind = "json"
          THEN tool.result.messages ELSE <<>>

\* The rows of the index whose channel is c.
HitsOf(c) == SelectSeq(tool.results, LAMBDA row : row.channel = c)

\* The answer the decision held for channel c rests on says: the lookup
\* succeeded and the channel is open or the token's user is a member.
AnsweredPermitted(c) ==
    LET info == tool.permitted_channels[c].info
    IN /\ ~tool.permitted_channels[c].none
       /\ ~info.raises
       /\ info.ok
       /\ (~info.is_private \/ info.is_member)

\* C21: every message of the output has a channel_id whose decision in this
\* call is permitted, and a decision is permitted exactly when the channel
\* info call succeeded and the channel is not private or the token's user is
\* a member; a channel of the hits that is not permitted has no message in
\* the output.
C21_HiddenChannelsFiltered ==
    /\ \A k \in 1..Len(Output) :
          /\ tool.permitted_channels[Output[k].channel_id].permitted
          /\ AnsweredPermitted(Output[k].channel_id)
    /\ \A c \in Channels :
          /\ tool.permitted_channels[c].permitted <=> AnsweredPermitted(c)
          /\ (tool.checks[c] \in {"done", "cached", "failed"} /\ ~AnsweredPermitted(c))
                => \A k \in 1..Len(Output) : Output[k].channel_id # c

\* The index hit a private channel the user is not a member of and an open
\* one; the output has the open channel's messages only.
C21_Witness ==
    /\ Len(Output) >= 1
    /\ HitsOf("C_HIDDEN") # <<>>
    /\ tool.permitted_channels["C_HIDDEN"].info = InfoOk(TRUE, FALSE, "general")
    /\ \A k \in 1..Len(Output) : Output[k].channel_id = "C_PUB"

\* The upstream lookup of channel c raised in this call.
LookupRaised(c) == tool.checks[c] = "failed"

\* The access checks of this call have all finished and the rows were
\* filtered.
PastFilter ==
    /\ tool.results # <<>>
    /\ tool.pc \in {"team", "threads", "names", "returned"}
    /\ \A c \in Channels : tool.checks[c] \in {"none", "done", "cached", "failed"}

\* C22: a channel whose lookup raised has no decision and is treated as not
\* permitted: none of its hits passes the filter or reaches the output, the
\* hits of every permitted channel pass the filter in their order, and the
\* call neither raises nor returns an error because of the lookup.
C22_LookupErrorFailsClosed ==
    \A c \in Channels :
       LookupRaised(c) =>
          /\ tool.permitted_channels[c].none
          /\ \A i \in 1..Len(tool.filtered_results) : tool.filtered_results[i].channel # c
          /\ \A k \in 1..Len(Output) : Output[k].channel_id # c
          /\ PastFilter =>
                \/ tool.filtered_results =
                      SelectSeq(tool.results, LAMBDA row : AnsweredPermitted(row.channel))
                \/ /\ tool.pc = "returned"
                   /\ tool.result =
                        Explain("No messages found in your authorized channels.")
          /\ tool.pc # "raised"
          /\ tool.result.kind = "error" => tool.result.error = "team_info"

\* The lookup of one channel raised, the other channel is open: the call
\* returned both messages of the open channel and none of the other.
C22_Witness ==
    /\ LookupRaised("C_HIDDEN")
    /\ AnsweredPermitted("C_PUB")
    /\ Len(Output) = 2
    /\ \A k \in 1..2 : Output[k].channel_id = "C_PUB"

\* No identity is bound in the context the tool runs in.
NoIdentityBound ==
    /\ ~Truthy(user_id_ctx[ContextOf(ToolSlot)])
    /\ ~Truthy(team_id_ctx[ContextOf(ToolSlot)])

\* The calls the tool issued to the embedding model, the index and Slack.
PipelineCalls ==
    SelectSeq(tool.upstream,
              LAMBDA call : call.op \in {"generate_embeddings", "perform_vector_search",
                                         "conversations_info", "team_info",
                                         "conversations_replies", "users_info"})

\* C23: a call of search_slack_messages with no identity bound issues no
\* embedding, index or directory call, and what it returns is a refusal,
\* never messages.
C23_RefusesWithoutIdentity ==
    (tool.pc # "idle" /\ NoIdentityBound) =>
        /\ PipelineCalls = <<>>
        /\ Output = <<>>

\* The number of upstream lookups this call issued for channel c.
LookupsOf(c) ==
    Len(SelectSeq(tool.upstream,
                  LAMBDA call : call.op = "conversations_info" /\ call.arg = c))

\* This call's check of channel c found an entry of an earlier lookup that
\* had not expired: the check was made less than the TTL after the entry
\* was written.
WithinTtl(c) == tool.seen[c].present /\ tool.checked_at[c] < tool.seen[c].expiry

\* The check of channel c of the call in progress has consulted the cache.
Checked(c) == tool.checks[c] \notin {"none", "created"}

\* C24: a check of a channel made within the TTL of the entry an earlier
\* check wrote issues no upstream lookup and takes the cached decision; a
\* check that finds no entry, or an entry at or past its expiry, issues
\* exactly one lookup, and its answer replaces the entry with one that
\* expires CHANNEL_INFO_TTL seconds after the answer; before the check has
\* consulted the cache no lookup is issued.
C24_CacheHitAndExpiry ==
    /\ \A c \in Channels :
          IF ~Checked(c) THEN LookupsOf(c) = 0
          ELSE IF WithinTtl(c)
             THEN /\ tool.checks[c] = "cached"
                  /\ LookupsOf(c) = 0
                  /\ tool.permitted_channels[c] = tool.seen[c].data
                  /\ cache.channel_info[c] = tool.seen[c]
             ELSE /\ tool.checks[c] \in {"pending", "done", "failed"}
                  /\ LookupsOf(c) = 1
                  /\ tool.checks[c] = "done" =>
                        /\ cache.channel_info[c].present
                        /\ cache.channel_info[c].data = tool.permitted_channels[c]
                        /\ cache.channel_info[c].written = tool.decided_at[c]
                        /\ cache.channel_info[c].written >= tool.checked_at[c]
                        /\ cache.channel_info[c].expiry
                              = cache.channel_info[c].written + CHANNEL_INFO_TTL
    /\ \A c \in Channels :
          cache.channel_info[c].present =>
             \E t \in {0} \cup SearchInstants :
                /\ t <= clock
                /\ cache.channel_info[c].expiry = t + CHANNEL_INFO_TTL

\* At second 600 a call checks two channels: the entry of one was written
\* at second 0 and has expired, so it is looked up again and replaced; the
\* entry of the other was written at second 599 and is served from the cache.
C24_Witness ==
    /\ tool.checked_at["C_PUB"] = CHANNEL_INFO_TTL
    /\ tool.checks["C_PUB"] = "done"
    /\ tool.seen["C_PUB"].present
    /\ tool.seen["C_PUB"].expiry = CHANNEL_INFO_TTL
    /\ LookupsOf("C_PUB") = 1
    /\ cache.channel_info["C_PUB"].expiry = 2 * CHANNEL_INFO_TTL
    /\ tool.checked_at["C_HIDDEN"] = CHANNEL_INFO_TTL
    /\ tool.checks["C_HIDDEN"] = "cached"
    /\ tool.seen["C_HIDDEN"].expiry = 2 * CHANNEL_INFO_TTL - 1
    /\ LookupsOf("C_HIDDEN") = 0

\* The calls that enrich the filtered rows.
EnrichmentCalls ==
    SelectSeq(tool.upstream,
              LAMBDA call : call.op \in {"team_info", "conversations_replies", "users_info"})

\* Every access check of this call has finished and no row is permitted.
AllFilteredOut ==
    /\ tool.results # <<>>
    /\ \A c \in Channels : tool.checks[c] \in {"none", "done", "cached", "failed"}
    /\ \A i \in 1..Len(tool.results) : ~AnsweredPermitted(tool.results[i].channel)

\* C25: when the index answers with no rows the call returns the text
\* "No messages found.", and when every row was filtered out by the access
\* checks the call, once it resumes from the checks, returns
\* "No messages found in your authorized channels."; both are plain results,
\* not errors, and no workspace, thread or user call was issued.
C25_EmptyResultsExplained ==
    /\ (tool.searched /\ tool.results = <<>>) =>
          /\ tool.pc = "returned"
          /\ tool.result = Explain("No messages found.")
          /\ tool.result.kind # "error"
          /\ EnrichmentCalls = <<>>
    /\ AllFilteredOut =>
          /\ tool.pc \in {"access", "returned"}
          /\ tool.pc = "returned" =>
                tool.result = Explain("No messages found in your authorized channels.")
          /\ tool.result.kind # "error"
          /\ EnrichmentCalls = <<>>

\* The index hit two channels; one lookup answered private and not a member,
\* the other raised: the call returned the explanatory text.
C25_Witness ==
    /\ AllFilteredOut
    /\ tool.permitted_channels["C_PUB"].info = InfoOk(TRUE, FALSE, "general")
    /\ LookupRaised("C_HIDDEN")
    /\ tool.pc = "returned"
    /\ tool.result.text = "No messages found in your authorized channels."

\* The number of thread fetches this call issued for the row.
FetchesOf(row) ==
    Len(SelectSeq(tool.upstream,
                  LAMBDA call : call.op = "conversations_replies" /\ call.arg = row.ts[1]))

\* The number of name lookups this call issued for user u.
NameLookupsOf(u) ==
    Len(SelectSeq(tool.upstream, LAMBDA call : call.op = "users_info" /\ call.arg = u))

\* The messages of the output that belong to the row.
OutputOf(row) ==
    SelectSeq(Output, LAMBDA m : m.channel_id = row.channel /\ m.ts = row.ts)

\* The call got as far as the enrichment and has returned.
ReturnedEnriched == tool.pc = "returned" /\ tool.threads # <<>>

\* C26: once the thread fetches have started, a fetch or a name lookup that
\* fails is not retried and does not turn the result into an error: the call
\* returns the messages of every row whose fetch succeeded, none for a row
\* whose fetch failed, each message with its author's resolved name, or
\* "unknown-user" for exactly the authors whose lookup failed.
C26_EnrichmentFailureDegradesItem ==
    /\ \A i \in 1..Len(tool.threads) :
          /\ FetchesOf(tool.filtered_results[i]) = IF tool.threads[i] = "created" THEN 0 ELSE 1
          /\ ReturnedEnriched =>
                /\ tool.threads[i] = "done" =>
                      OutputOf(tool.filtered_results[i]) =
                         <<FinalMessage(tool, tool.filtered_results[i].channel,
                                        Message(tool.filtered_results[i].ts,
                                                AuthorOf(tool.filtered_results[i]), "hello"))>>
                /\ tool.threads[i] = "failed" => OutputOf(tool.filtered_results[i]) = <<>>
    /\ \A u \in Users :
          /\ NameLookupsOf(u) = IF tool.names[u] \in {"pending", "done", "failed"} THEN 1 ELSE 0
          /\ ReturnedEnriched =>
                \A k \in 1..Len(Output) :
                   Output[k].user_id = u =>
                      /\ tool.names[u] \in {"done", "cached", "failed"}
                      /\ tool.names[u] = "failed" <=> Output[k].user_name = "unknown-user"
                      /\ tool.names[u] # "failed" =>
                            Output[k].user_name = cache.user_names[u].name
    /\ ReturnedEnriched =>
          /\ tool.result.kind = "json"
          /\ \A i \in 1..Len(tool.threads) : tool.threads[i] \in {"done", "failed"}
    /\ tool.threads # <<>> => tool.pc # "raised"

\* Three permitted rows: the fetch of the first failed and the name lookup of
\* one author failed; the output has the other two rows' messages, one with
\* the resolved name and one with "unknown-user".
C26_Witness ==
    /\ ReturnedEnriched
    /\ Len(tool.threads) = 3
    /\ tool.threads[1] = "failed"
    /\ tool.threads[2] = "done"
    /\ tool.threads[3] = "done"
    /\ tool.names["U_A"] = "done"
    /\ tool.names["U_B"] = "failed"
    /\ Len(Output) = 2
    /\ \E k \in 1..2 : Output[k].user_name = "unknown-user"
    /\ \E k \in 1..2 : Output[k].user_name = "Real Name"

\* C27: whichever step of search_slack_messages fails (the token secret
\* fetch, the client creation, the embedding, the vector search, the
\* workspace info), the call returns an error result; no exception leaves
\* the function.
C27_NoRawException ==
    /\ tool.pc # "raised"
    /\ tool.result.kind = "error" => tool.pc = "returned"

\* A task of one of the three fan-outs waits for an answer that never comes.
SomeTaskHung ==
    \/ \E c \in Channels : tool.checks[c] = "hung"
    \/ \E i \in 1..Len(tool.threads) : tool.threads[i] = "hung"
    \/ \E u \in Users : tool.names[u] = "hung"

CallEndsUnlessHung ==
    (tool.pc # "idle") ~> (tool.pc \in {"returned", "raised"} \/ SomeTaskHung)

\* ------------------------------------------------------------ rate limit, recovery
\* C29: a 429 is not a ban.  Whatever the log holds from earlier requests,
\* allowed or rejected, an impersonation request whose check finds at most
\* MAX_UNIQUE_IMPERSONATIONS distinct identities among the entries stamped
\* within the last IMPERSONATION_WINDOW_SECONDS, its own included, is not
\* answered 429 and goes on to the directory lookup; in particular a request
\* made when every earlier entry is older than the window is allowed.
C29_RateLimitNotABan ==
    \A r \in Slots :
        Counted(r) =>
            LET now == loc[r].now
                recent == {d \in log : d.timestamp >= now - IMPERSONATION_WINDOW_SECONDS}
                allowed == /\ Called(r, Call("get_secret_value", "slackBotToken"))
                           /\ \A i \in 1..Len(responses[r]) : responses[r][i].status # 429
            IN  /\ Cardinality({d.user_email : d \in recent}) <= MAX_UNIQUE_IMPERSONATIONS
                      => allowed
                /\ (\A d \in log : d.timestamp < now - IMPERSONATION_WINDOW_SECONDS
                                   \/ d = LogDoc(loc[r].final_user_email, now))
                      => allowed

\* Twenty identities and then Alice were logged at second 0, so Alice's
\* request was rejected then; her request at second 61 is allowed although
\* the log still holds all twenty-one identities.
C29_Witness ==
    \E r \in Slots :
        /\ Counted(r)
        /\ loc[r].now = IMPERSONATION_WINDOW_SECONDS + 1
        /\ loc[r].final_user_email = Alice
        /\ BackgroundLog(MAX_UNIQUE_IMPERSONATIONS) \subseteq log
        /\ LogDoc(Alice, 0) \in log
        /\ Called(r, Call("get_secret_value", "slackBotToken"))
        /\ \A i \in 1..Len(responses[r]) : responses[r][i].status # 429

\* ------------------------------------------------------------ webhook claims
\* The request in progress is a POST to one of the two Slack endpoints.
SlackPost ==
    /\ hook.request.method = "POST"
    /\ hook.request.path \in {"/slack/events", "/slack/interactivity"}

\* The workspace the payload names is on the configured allow-list: its
\* team among the teams, or its enterprise among the enterprises.
OnAllowList(payload) ==
    LET teams == SplitAndStrip(config.teamIdsForSearch)
        enterprises == SplitAndStrip(config.enterpriseIdsForSearch)
    IN \/ \E i \in 1..Len(teams) :
             teams[i] \in {payload.team_id, payload.team, payload.event.team,
                           payload.event.user_team} \ {""}
       \/ \E i \in 1..Len(enterprises) :
             enterprises[i] \in {payload.enterprise_id, payload.event.enterprise} \ {""}

\* C30: a POST to /slack/events or /slack/interactivity reaches its route
\* handler only if the Slack signature verified and the payload of the
\* request is a url_verification challenge or names an allow-listed team or
\* enterprise; an invalid signature is answered 401 and an unauthorized
\* workspace 200 "Unauthorized Workspace", both without the handler.
C30_WebhookHandlerGated ==
    SlackPost =>
        /\ hook.handled =>
              /\ hook.request.signed
              /\ hook.is_valid
              /\ \/ hook.request.body.payload.type = "url_verification"
                 \/ OnAllowList(hook.request.body.payload)
        /\ (hook.pc \notin {"idle", "await_body", "await_verify"} /\ ~hook.request.signed) =>
              /\ ~hook.handled
              /\ hook.pc = "done"
              /\ hook.response = HookResponse(401, "Invalid Slack signature")
        /\ (hook.asked /\ ~hook.authorized) =>
              /\ ~hook.handled
              /\ hook.response = HookResponse(200, "Unauthorized Workspace")

\* The request in slot r is an impersonation request whose X-User-ID-Token
\* verified with an e-mail: the rate limiter was entered for it.
Impersonating(r) ==
    /\ IsHttp(r)
    /\ CalledOp(r, "verify_oauth2_token")
    /\ loc[r].is_logic_server
    /\ UserTokenGood(r)
    /\ loc[r].final_user_email = UserToken(r).email

\* The number of calls of operation op made for the request in slot r.
TimesCalled(r, op) == Cardinality({i \in 1..Len(calls[r]) : calls[r][i].op = op})

\* The entries of the log that name the identity the request in slot r acts as.
OwnEntries(r) == {d \in log : d.user_email = loc[r].final_user_email}

\* C31: an impersonation request whose user token verified with an e-mail
\* writes exactly one log entry for the identity it acts as, and writes it
\* before it queries the window; it does so whether or not the identity
\* already has entries in the window, and the entry stays when the request
\* is afterwards answered 429 or 403; so the distinct identities a request
\* reads always include its own.
C31_AttemptAlwaysLogged ==
    \A r \in Slots :
        Impersonating(r) =>
            /\ TimesCalled(r, "log.set") = 1
            /\ TimesCalled(r, "log.query") <= 1
            /\ CalledOp(r, "log.query") =>
                  /\ \E i, j \in 1..Len(calls[r]) :
                        i < j /\ calls[r][i].op = "log.set" /\ calls[r][j].op = "log.query"
                  /\ LogDoc(loc[r].final_user_email, loc[r].now) \in log
                  /\ Cardinality({d \in OwnEntries(r) : d.timestamp = loc[r].now}) = 1
            /\ Counted(r) => loc[r].final_user_email \in loc[r].unique_users

\* C31 witness: a request for an identity that already had an older entry in
\* the window wrote its own entry, read itself in the window and was then
\* answered 429.
C31_Witness ==
    \E r \in Slots :
        /\ Impersonating(r)
        /\ pc[r] = "done"
        /\ responses[r] = <<Response(429, "Impersonation rate limit exceeded")>>
        /\ loc[r].final_user_email \in loc[r].unique_users
        /\ LogDoc(loc[r].final_user_email, loc[r].now) \in log
        /\ \E d \in OwnEntries(r) :
              /\ d.timestamp < loc[r].now
              /\ d.timestamp >= loc[r].cutoff

\* The rate-limit store raised while the request in slot r was appending its
\* entry or reading the window.
StoreRaised(r) == loc[r].raised \in {"log.set", "log.query"}

\* C32: when the rate-limit store raises during the append or the window
\* query of an impersonation check, the request is answered
\* 500 "Security validation failed" and the handler is not called.
C32_StoreFaultIs500 ==
    \A r \in Slots :
        (IsHttp(r) /\ StoreRaised(r)) =>
            /\ pc[r] = "done"
            /\ responses[r] = <<Response(500, "Security validation failed")>>
            /\ ~CalledOp(r, "app")

\* The entry d was written by a request that passed the rate check: even
\* with every entry now in the log that is no younger than d, the window of
\* d's request named at most the limit of distinct identities.
WrittenByAllowed(d) ==
    Cardinality({e.user_email :
                    e \in {x \in log : /\ x.timestamp <= d.timestamp
                                       /\ x.timestamp >= d.timestamp - IMPERSONATION_WINDOW_SECONDS}})
        <= MAX_UNIQUE_IMPERSONATIONS

\* C33: a rejected impersonation attempt stays in the log, so while the
\* entries within the window name more than 20 distinct identities every
\* impersonation request is answered 429 and is not dispatched, whether or
\* not its identity was let through earlier in the same window; a request
\* is let through again as soon as the entries still within the window name
\* at most 20 identities.
C33_SaturatedWindowRejectsAll ==
    \A r \in Slots :
        Counted(r) =>
            LET saturated ==
                    Cardinality(WindowEmails(loc[r].now)) > MAX_UNIQUE_IMPERSONATIONS
                rejected ==
                    /\ pc[r] = "done"
                    /\ responses[r] = <<Response(429, "Impersonation rate limit exceeded")>>
            IN  /\ saturated => (rejected /\ ~CalledOp(r, "app"))
                /\ rejected => (saturated /\ LogDoc(loc[r].final_user_email, loc[r].now) \in log)
                /\ ~saturated => Called(r, Call("get_secret_value", "slackBotToken"))

\* C33 witness: an identity that was let through at the start of the window
\* is answered 429 later in the same window, after the rejected attempt of
\* another identity had brought the window to 21 identities.
C33_Witness ==
    \E r \in Slots :
        /\ Counted(r)
        /\ pc[r] = "done"
        /\ responses[r] = <<Response(429, "Impersonation rate limit exceeded")>>
        /\ Cardinality(loc[r].unique_users) = MAX_UNIQUE_IMPERSONATIONS + 1
        /\ \E d \in OwnEntries(r) :
              /\ d.timestamp < loc[r].now
              /\ d.timestamp >= loc[r].cutoff
              /\ WrittenByAllowed(d)
        /\ \E d \in log :
              /\ d.user_email \in {Alice, Bob} \ {loc[r].final_user_email}
              /\ d.timestamp >= loc[r].cutoff
              /\ ~WrittenByAllowed(d)

\* The identities of the granted entries whose timestamps lie in the
\* window that starts at `from`: entries lie pairwise within the window
\* exactly when one such interval holds them all.
GrantedWithin(from) ==
    {d.user_email :
        d \in {e \in granted : /\ e.timestamp >= from
                               /\ e.timestamp <= from + IMPERSONATION_WINDOW_SECONDS}}

\* C34: when every window query yields all entries written before it, the
\* impersonation checks of concurrent tasks and instances, interleaved in
\* any order between their write and their query, never all return True
\* for more than 20 distinct identities whose entries' timestamps lie
\* pairwise within 60 seconds.
C34_RaceNeverExceedsLimit ==
    \A d \in granted :
        Cardinality(GrantedWithin(d.timestamp)) <= MAX_UNIQUE_IMPERSONATIONS

\* C34 witness: two checks for different identities overlapped (both had
\* written before either had read) with the window one short of the limit,
\* and both were refused although neither identity had been granted.
C34_Witness ==
    /\ \A r \in Slots :
          /\ Counted(r)
          /\ responses[r] = <<Response(429, "Impersonation rate limit exceeded")>>
          /\ loc[r].unique_users = {d.user_email : d \in log}
    /\ loc[1].final_user_email # loc[2].final_user_email
    /\ Cardinality(GrantedWithin(0)) = MAX_UNIQUE_IMPERSONATIONS - 1
    /\ \A d \in granted : d.user_email \notin {Alice, Bob}

\* C35: the gateway produces exactly one response for every HTTP request;
\* when the handler raises after it has started sending its response, no
\* second (500) response is started on the connection.
C35_ExactlyOneResponse ==
    \A r \in Slots :
        (IsHttp(r) /\ pc[r] = "done") => Len(responses[r]) = 1

\* Channel c has rows that passed the filter of the call in progress.
Admitted(c) ==
    \E i \in 1..Len(tool.filtered_results) : tool.filtered_results[i].channel = c

\* The hits of the output rest on decisions as the code obtains them, and
\* the cache holds answered decisions only.
DecisionsDetermined ==
    /\ \A c \in Channels :
          Admitted(c) =>
             /\ AnsweredPermitted(c)
             /\ tool.permitted_channels[c] = Decision(tool.permitted_channels[c].info)
             /\ tool.checks[c] \in {"done", "cached"}
             /\ tool.checks[c] = "done" =>
                   /\ LookupsOf(c) = 1
                   /\ tool.decided_at[c] >= tool.checked_at[c]
             /\ tool.checks[c] = "cached" =>
                   /\ LookupsOf(c) = 0
                   /\ tool.seen[c].present
                   /\ tool.seen[c].data = tool.permitted_channels[c]
                   /\ tool.decided_at[c] = tool.seen[c].written
                   /\ tool.checked_at[c] < tool.seen[c].expiry
    /\ \A c \in Channels :
          cache.channel_info[c].present =>
             /\ ~cache.channel_info[c].data.info.raises
             /\ cache.channel_info[c].data = Decision(cache.channel_info[c].data.info)
             /\ cache.channel_info[c].written <= clock
             /\ cache.channel_info[c].expiry = cache.channel_info[c].written + CHANNEL_INFO_TTL
    /\ \A c \in Channels :
          (tool.checks[c] = "failed" /\ ~tool.seen[c].present) =>
              ~cache.channel_info[c].present

\* C36 (as claimed): every hit admitted to the output rests on a permitted
\* decision obtained from an upstream channel lookup answered no more than
\* 600 seconds before the output is returned; a cached decision is never
\* used at or after its expiry; a decision for a lookup that raised is never
\* written to the cache.
C36_FreshAtOutput ==
    /\ DecisionsDetermined
    /\ \A k \in 1..Len(Output) :
          /\ tool.returned_at - tool.decided_at[Output[k].channel_id] <= CHANNEL_INFO_TTL
          /\ tool.checks[Output[k].channel_id] = "cached" =>
                tool.returned_at < tool.seen[Output[k].channel_id].expiry

\* C36 (amended): every hit that passes the filter rests on a permitted
\* decision that an upstream channel lookup answered, either in this call
\* after its check of the channel or less than 600 seconds before that
\* check; a cached decision is never taken at or after its expiry; and the
\* cache never holds a decision for a lookup that raised.
C36_DecisionsFreshAndDetermined ==
    /\ DecisionsDetermined
    /\ \A c \in Channels :
          (Admitted(c) /\ tool.checks[c] = "cached") =>
              tool.checked_at[c] - tool.decided_at[c] < CHANNEL_INFO_TTL

\* C36 witness: a call returned hits of a channel on a decision cached 599
\* seconds before its check and more than 600 seconds before the return,
\* while the lookup of the other channel raised in the same call and left
\* that channel's entry as it was.
C36_Witness ==
    /\ tool.pc = "returned"
    /\ Len(Output) > 0
    /\ \E c \in Channels :
          /\ Admitted(c)
          /\ tool.checks[c] = "cached"
          /\ tool.checked_at[c] - tool.seen[c].written = CHANNEL_INFO_TTL - 1
          /\ tool.returned_at - tool.decided_at[c] > CHANNEL_INFO_TTL
    /\ \E c \in Channels :
          /\ tool.checks[c] = "failed"
          /\ cache.channel_info[c] = tool.seen[c]

\* The user bound to the call in progress.
BoundUser == user_id_ctx[ContextOf(ToolSlot)]

\* Every check of the call in progress has finished and the rows have been
\* filtered.
FilterApplied ==
    /\ tool.pc \notin {"idle", "access"}
    /\ tool.results # <<>>
    /\ \A c \in Channels : tool.checks[c] # "pending"

\* The decision for channel c as the hits, the cache contents at the check
\* and the upstream answer determine it; the bound identity is no input.
DecisionWithoutIdentity(c) ==
    IF tool.seen[c].present /\ tool.checked_at[c] < tool.seen[c].expiry
    THEN tool.seen[c].data.permitted
    ELSE /\ tool.checks[c] = "done"
         /\ Decision(tool.permitted_channels[c].info).permitted

\* C37: which containers a search call admits is determined by the index
\* hits, the cache contents and the upstream channel answers alone: the
\* decisions are stored and looked up by channel id, the upstream lookup
\* carries the channel id only, and the user bound to the call is no input;
\* so two calls that differ only in the bound user admit the same set.
C37_DecisionIndependentOfIdentity ==
    /\ FilterApplied =>
          tool.filtered_results
             = SelectSeq(tool.results, LAMBDA row : DecisionWithoutIdentity(row.channel))
    /\ \A i \in 1..Len(tool.upstream) :
          tool.upstream[i].op = "conversations_info" => tool.upstream[i].arg \in Channels
    /\ \A c \in Channels :
          (tool.checks[c] = "cached" /\ BoundUser # cache.writers[c]) =>
              tool.permitted_channels[c] = cache.channel_info[c].data

\* C37 witness: a call bound to one user admitted a channel on the decision
\* that a call bound to a different user had obtained and cached.
C37_Witness ==
    /\ FilterApplied
    /\ tool.pc = "returned"
    /\ Len(Output) > 0
    /\ BoundUser = "U2"
    /\ \E c \in Channels :
          /\ Admitted(c)
          /\ tool.checks[c] = "cached"
          /\ cache.writers[c] = "U1"

\* C38: the allow-lists are loaded at most once per process: once a first
\* call of _get_whitelists has completed, loaded or failed, no call made
\* later asks for a secret; after a failed first load both lists stay empty
\* and every later call of is_team_authorized returns False.
C38_ListsLoadedOnce ==
    /\ auth.fetches <= 2
    /\ \A t \in AuthTasks :
          auth.task[t].late =>
             /\ auth.task[t].fetched = 0
             /\ auth.task[t].pc \in {"returned", "raised"}
    /\ auth.first # "none" => (allowed_team_ids.loaded /\ allowed_enterprise_ids.loaded)
    /\ auth.first = "loaded" =>
          /\ allowed_team_ids = Loaded(SplitAndStrip(config.teamIdsForSearch))
          /\ allowed_enterprise_ids.ids \in {<<>>, SplitAndStrip(config.enterpriseIdsForSearch)}
    /\ auth.first = "failed" =>
          /\ allowed_team_ids = Loaded(<<>>)
          /\ allowed_enterprise_ids = Loaded(<<>>)
          /\ \A t \in AuthTasks :
                auth.task[t].pc # "idle" =>
                    (auth.task[t].pc = "returned" /\ auth.task[t].result = "False")

\* C38 witness: after a first load that failed, a later call about a team
\* the secret store lists returned False without asking for a secret.
C38_Witness ==
    /\ auth.first = "failed"
    /\ \E t \in AuthTasks :
          /\ auth.task[t].late
          /\ auth.task[t].pc = "returned"
          /\ auth.task[t].fetched = 0
          /\ auth.task[t].result = "False"
          /\ InSeq(auth.task[t].team_id, SplitAndStrip(config.teamIdsForSearch))
    /\ auth.fetches \in {1, 2}

\* C39: while the allow-lists are being loaded for the first time, no
\* concurrent call of is_team_authorized evaluates a half-loaded state
\* (team list assigned, enterprise list still None): every call evaluates
\* both lists assigned, and returns True or False, never an exception.
C39_NoPartialLoadObserved ==
    \A t \in AuthTasks :
        auth.task[t].pc \in {"returned", "raised"} =>
            /\ auth.task[t].seen_enterprises
            /\ auth.task[t].result \in {"True", "False"}

\* The keep-alive task exists and has not ended.
KeepAliveAlive == worker.keep_alive \in {"created", "sleeping", "posting"}

\* C40: when the Pub/Sub worker has its response (and afterwards, until the
\* next event arrives), a keep-alive task started for the event has been
\* cancelled and has ended and the removal of thinking_face has been called,
\* whatever the outcome of the try statement (agent run succeeded, raised and
\* was reported, or the error report raised too); a keep-alive task is only
\* ever alive while the request that created it is in progress.
C40_KeepAliveEndsWithRequest ==
    /\ (worker.pc \in {"done", "idle"} /\ worker.keep_alive # "none")
          => /\ worker.keep_alive = "finished"
             /\ worker.cancelled
             /\ worker.cleanup
             /\ worker.outcome \in {"ok", "reported", "raised"}
    /\ KeepAliveAlive
          => /\ ~worker.stale
             /\ worker.pc \in {"auth_test", "agent", "post", "save", "report",
                               "await_keep_alive"}

\* The agent run raised and the error report raised as well: the worker
\* answers 500 after the task, which had posted a status message, was
\* cancelled and ended and the removal of thinking_face was called.
C40_Witness ==
    /\ worker.pc = "done"
    /\ worker.response = 500
    /\ worker.outcome = "raised"
    /\ worker.keep_alive = "finished"
    /\ worker.cancelled
    /\ worker.posts >= 1
    /\ worker.cleanup

====
